---- MODULE Spec2Model ----
(***************************************************************************)
(* Model of the CI scripts of pixi-build-testsuite:                        *)
(*   - scripts/download-artifacts.py (both revisions): platform tag,       *)
(*     artifact locator, downloader/extractor, metadata, main;             *)
(*   - scripts/update-lockfiles.py: the lockfile updater.                  *)
(* Strings are kept as TLA+ strings in the state; every string operation   *)
(* the code performs (lower(), in, startswith, endswith, Path(...).name)   *)
(* is computed on the character sequence of the string (Chars).            *)
(***************************************************************************)
EXTENDS Integers, Sequences, FiniteSets, TLC

(***************************************************************************)
(* Strings                                                                 *)
(***************************************************************************)

\* The character sequence of every string the model uses.
CharsOf(s) ==
  CASE s = "Linux" -> <<"L", "i", "n", "u", "x">>
    [] s = "Darwin" -> <<"D", "a", "r", "w", "i", "n">>
    [] s = "Windows" -> <<"W", "i", "n", "d", "o", "w", "s">>
    [] s = "FreeBSD" -> <<"F", "r", "e", "e", "B", "S", "D">>
    [] s = "linux" -> <<"l", "i", "n", "u", "x">>
    [] s = "darwin" -> <<"d", "a", "r", "w", "i", "n">>
    [] s = "windows" -> <<"w", "i", "n", "d", "o", "w", "s">>
    [] s = "freebsd" -> <<"f", "r", "e", "e", "b", "s", "d">>
    [] s = "x86_64" -> <<"x", "8", "6", "_", "6", "4">>
    [] s = "AMD64" -> <<"A", "M", "D", "6", "4">>
    [] s = "amd64" -> <<"a", "m", "d", "6", "4">>
    [] s = "aarch64" -> <<"a", "a", "r", "c", "h", "6", "4">>
    [] s = "arm64" -> <<"a", "r", "m", "6", "4">>
    [] s = "ARM64" -> <<"A", "R", "M", "6", "4">>
    [] s = "ppc64le" -> <<"p", "p", "c", "6", "4", "l", "e">>
    [] s = "i686" -> <<"i", "6", "8", "6">>
    [] s = "win32" -> <<"w", "i", "n", "3", "2">>
    [] s = "freebsd13" -> <<"f", "r", "e", "e", "b", "s", "d", "1", "3">>
    [] s = "win" -> <<"w", "i", "n">>
    [] s = "linux-x86_64" -> <<"l", "i", "n", "u", "x", "-", "x", "8", "6", "_", "6", "4">>
    [] s = "linux-aarch64" -> <<"l", "i", "n", "u", "x", "-", "a", "a", "r", "c", "h", "6", "4">>
    [] s = "macos-aarch64" -> <<"m", "a", "c", "o", "s", "-", "a", "a", "r", "c", "h", "6", "4">>
    [] s = "macos-x86_64" -> <<"m", "a", "c", "o", "s", "-", "x", "8", "6", "_", "6", "4">>
    [] s = "windows-x86_64" -> <<"w", "i", "n", "d", "o", "w", "s", "-", "x", "8", "6", "_", "6", "4">>
    [] s = "prefix-dev/pixi" -> <<"p", "r", "e", "f", "i", "x", "-", "d", "e", "v", "/", "p", "i", "x", "i">>
    [] s = "prefix-dev/pixi-build-backends" -> <<"p", "r", "e", "f", "i", "x", "-", "d", "e", "v", "/", "p", "i", "x", "i", "-", "b", "u", "i", "l", "d", "-", "b", "a", "c", "k", "e", "n", "d", "s">>
    [] s = "/pixi" -> <<"/", "p", "i", "x", "i">>
    [] s = "/pixi-build-backends" -> <<"/", "p", "i", "x", "i", "-", "b", "u", "i", "l", "d", "-", "b", "a", "c", "k", "e", "n", "d", "s">>
    [] s = "pixi-" -> <<"p", "i", "x", "i", "-">>
    [] s = "pixi-build-backends-" -> <<"p", "i", "x", "i", "-", "b", "u", "i", "l", "d", "-", "b", "a", "c", "k", "e", "n", "d", "s", "-">>
    [] s = "pixi-build-" -> <<"p", "i", "x", "i", "-", "b", "u", "i", "l", "d", "-">>
    [] s = "pixi-linux-x86_64" -> <<"p", "i", "x", "i", "-", "l", "i", "n", "u", "x", "-", "x", "8", "6", "_", "6", "4">>
    [] s = "pixi-macos-aarch64" -> <<"p", "i", "x", "i", "-", "m", "a", "c", "o", "s", "-", "a", "a", "r", "c", "h", "6", "4">>
    [] s = "pixi-windows-x86_64" -> <<"p", "i", "x", "i", "-", "w", "i", "n", "d", "o", "w", "s", "-", "x", "8", "6", "_", "6", "4">>
    [] s = "pixi-build-backends-linux-x86_64" -> <<"p", "i", "x", "i", "-", "b", "u", "i", "l", "d", "-", "b", "a", "c", "k", "e", "n", "d", "s", "-", "l", "i", "n", "u", "x", "-", "x", "8", "6", "_", "6", "4">>
    [] s = "pixi-build-backends-windows-x86_64" -> <<"p", "i", "x", "i", "-", "b", "u", "i", "l", "d", "-", "b", "a", "c", "k", "e", "n", "d", "s", "-", "w", "i", "n", "d", "o", "w", "s", "-", "x", "8", "6", "_", "6", "4">>
    [] s = "pixi-linux-x86_64-debug" -> <<"p", "i", "x", "i", "-", "l", "i", "n", "u", "x", "-", "x", "8", "6", "_", "6", "4", "-", "d", "e", "b", "u", "g">>
    [] s = "pixi-windows-x86_64-debug" -> <<"p", "i", "x", "i", "-", "w", "i", "n", "d", "o", "w", "s", "-", "x", "8", "6", "_", "6", "4", "-", "d", "e", "b", "u", "g">>
    [] s = "-debug" -> <<"-", "d", "e", "b", "u", "g">>
    [] s = "pixi" -> <<"p", "i", "x", "i">>
    [] s = "pixi.exe" -> <<"p", "i", "x", "i", ".", "e", "x", "e">>
    [] s = ".exe" -> <<".", "e", "x", "e">>
    [] s = "." -> <<".">>
    [] s = "/" -> <<"/">>
    [] s = "bin/pixi" -> <<"b", "i", "n", "/", "p", "i", "x", "i">>
    [] s = "bin" -> <<"b", "i", "n">>
    [] s = "bin/notpixi.exe" -> <<"b", "i", "n", "/", "n", "o", "t", "p", "i", "x", "i", ".", "e", "x", "e">>
    [] s = "notpixi.exe" -> <<"n", "o", "t", "p", "i", "x", "i", ".", "e", "x", "e">>
    [] s = "README.md" -> <<"R", "E", "A", "D", "M", "E", ".", "m", "d">>
    [] s = "pixi/pixi" -> <<"p", "i", "x", "i", "/", "p", "i", "x", "i">>
    [] s = "pixi-build-backends-v1/" -> <<"p", "i", "x", "i", "-", "b", "u", "i", "l", "d", "-", "b", "a", "c", "k", "e", "n", "d", "s", "-", "v", "1", "/">>
    [] s = "pixi-build-backends-v1" -> <<"p", "i", "x", "i", "-", "b", "u", "i", "l", "d", "-", "b", "a", "c", "k", "e", "n", "d", "s", "-", "v", "1">>
    [] s = "pixi-build-backends-v1/pixi-build-rust" -> <<"p", "i", "x", "i", "-", "b", "u", "i", "l", "d", "-", "b", "a", "c", "k", "e", "n", "d", "s", "-", "v", "1", "/", "p", "i", "x", "i", "-", "b", "u", "i", "l", "d", "-", "r", "u", "s", "t">>
    [] s = "pixi-build-rust" -> <<"p", "i", "x", "i", "-", "b", "u", "i", "l", "d", "-", "r", "u", "s", "t">>
    [] s = "pixi-build-cmake" -> <<"p", "i", "x", "i", "-", "b", "u", "i", "l", "d", "-", "c", "m", "a", "k", "e">>
    [] s = "pixi-build-rust.exe" -> <<"p", "i", "x", "i", "-", "b", "u", "i", "l", "d", "-", "r", "u", "s", "t", ".", "e", "x", "e">>
    [] s = "v2/pixi-build-rust" -> <<"v", "2", "/", "p", "i", "x", "i", "-", "b", "u", "i", "l", "d", "-", "r", "u", "s", "t">>
    [] s = "v2" -> <<"v", "2">>
    [] s = "pixi-build-rust.pdb" -> <<"p", "i", "x", "i", "-", "b", "u", "i", "l", "d", "-", "r", "u", "s", "t", ".", "p", "d", "b">>
    [] s = "" -> <<>>
    [] s = "pixi.lock" -> <<"p", "i", "x", "i", ".", "l", "o", "c", "k">>
    [] s = "a/pixi.lock" -> <<"a", "/", "p", "i", "x", "i", ".", "l", "o", "c", "k">>
    [] s = "a/b/pixi.lock" -> <<"a", "/", "b", "/", "p", "i", "x", "i", ".", "l", "o", "c", "k">>
    [] s = "c/pixi.toml" -> <<"c", "/", "p", "i", "x", "i", ".", "t", "o", "m", "l">>
    [] s = "c/my-pixi.lock" -> <<"c", "/", "m", "y", "-", "p", "i", "x", "i", ".", "l", "o", "c", "k">>
    [] s = "a" -> <<"a">>
    [] s = "b" -> <<"b">>
    [] s = "c" -> <<"c">>
    [] s = "pixi.toml" -> <<"p", "i", "x", "i", ".", "t", "o", "m", "l">>
    [] s = "my-pixi.lock" -> <<"m", "y", "-", "p", "i", "x", "i", ".", "l", "o", "c", "k">>
    [] s = "0" -> <<"0">>
    [] s = "12" -> <<"1", "2">>
    [] s = "abc" -> <<"a", "b", "c">>
    [] s = " " -> <<" ">>
    [] s = " 12 " -> <<" ", "1", "2", " ">>
    [] s = "12 " -> <<"1", "2", " ">>
    [] s = "13" -> <<"1", "3">>
    [] s = "012" -> <<"0", "1", "2">>
    [] s = "https://prefix.dev/pixi-build-backends" -> <<"h", "t", "t", "p", "s", ":", "/", "/", "p", "r", "e", "f", "i", "x", ".", "d", "e", "v", "/", "p", "i", "x", "i", "-", "b", "u", "i", "l", "d", "-", "b", "a", "c", "k", "e", "n", "d", "s">>
    [] s = "https://prefix.dev/conda-forge" -> <<"h", "t", "t", "p", "s", ":", "/", "/", "p", "r", "e", "f", "i", "x", ".", "d", "e", "v", "/", "c", "o", "n", "d", "a", "-", "f", "o", "r", "g", "e">>
    [] s = "https://example.org/channel" -> <<"h", "t", "t", "p", "s", ":", "/", "/", "e", "x", "a", "m", "p", "l", "e", ".", "o", "r", "g", "/", "c", "h", "a", "n", "n", "e", "l">>
    [] s = "file:///repo/artifacts-channel" -> <<"f", "i", "l", "e", ":", "/", "/", "/", "r", "e", "p", "o", "/", "a", "r", "t", "i", "f", "a", "c", "t", "s", "-", "c", "h", "a", "n", "n", "e", "l">>
    [] s = "file:///testsuite/artifacts/pixi-build-backends" -> <<"f", "i", "l", "e", ":", "/", "/", "/", "t", "e", "s", "t", "s", "u", "i", "t", "e", "/", "a", "r", "t", "i", "f", "a", "c", "t", "s", "/", "p", "i", "x", "i", "-", "b", "u", "i", "l", "d", "-", "b", "a", "c", "k", "e", "n", "d", "s">>
    [] s = "pixi-build-backends" -> <<"p", "i", "x", "i", "-", "b", "u", "i", "l", "d", "-", "b", "a", "c", "k", "e", "n", "d", "s">>
    [] s = "artifacts" -> <<"a", "r", "t", "i", "f", "a", "c", "t", "s">>
    [] s = "artifacts/pixi" -> <<"a", "r", "t", "i", "f", "a", "c", "t", "s", "/", "p", "i", "x", "i">>
    [] s = "artifacts/pixi.exe" -> <<"a", "r", "t", "i", "f", "a", "c", "t", "s", "/", "p", "i", "x", "i", ".", "e", "x", "e">>
    [] s = "artifacts/pixi/pixi" -> <<"a", "r", "t", "i", "f", "a", "c", "t", "s", "/", "p", "i", "x", "i", "/", "p", "i", "x", "i">>
    [] s = "artifacts/pixi/pixi.exe" -> <<"a", "r", "t", "i", "f", "a", "c", "t", "s", "/", "p", "i", "x", "i", "/", "p", "i", "x", "i", ".", "e", "x", "e">>
    [] s = "custom" -> <<"c", "u", "s", "t", "o", "m">>
    [] s = "custom/pixi" -> <<"c", "u", "s", "t", "o", "m", "/", "p", "i", "x", "i">>
    [] s = "custom/pixi.exe" -> <<"c", "u", "s", "t", "o", "m", "/", "p", "i", "x", "i", ".", "e", "x", "e">>
    [] s = "missing" -> <<"m", "i", "s", "s", "i", "n", "g">>
    [] s = "missing/pixi" -> <<"m", "i", "s", "s", "i", "n", "g", "/", "p", "i", "x", "i">>
    [] s = "missing/pixi.exe" -> <<"m", "i", "s", "s", "i", "n", "g", "/", "p", "i", "x", "i", ".", "e", "x", "e">>
    [] s = "stale" -> <<"s", "t", "a", "l", "e">>
    [] s = "=" -> <<"=">>
    [] s = "," -> <<",">>
    [] s = "pixi-build-python" -> <<"p", "i", "x", "i", "-", "b", "u", "i", "l", "d", "-", "p", "y", "t", "h", "o", "n">>
    [] s = "pixi-build-rattler-build" -> <<"p", "i", "x", "i", "-", "b", "u", "i", "l", "d", "-", "r", "a", "t", "t", "l", "e", "r", "-", "b", "u", "i", "l", "d">>
    [] s = "pixi-build-ros" -> <<"p", "i", "x", "i", "-", "b", "u", "i", "l", "d", "-", "r", "o", "s">>
    [] s = "pixi-build-cmake.exe" -> <<"p", "i", "x", "i", "-", "b", "u", "i", "l", "d", "-", "c", "m", "a", "k", "e", ".", "e", "x", "e">>
    [] s = "pixi-build-python.exe" -> <<"p", "i", "x", "i", "-", "b", "u", "i", "l", "d", "-", "p", "y", "t", "h", "o", "n", ".", "e", "x", "e">>
    [] s = "pixi-build-rattler-build.exe" -> <<"p", "i", "x", "i", "-", "b", "u", "i", "l", "d", "-", "r", "a", "t", "t", "l", "e", "r", "-", "b", "u", "i", "l", "d", ".", "e", "x", "e">>
    [] s = "pixi-build-ros.exe" -> <<"p", "i", "x", "i", "-", "b", "u", "i", "l", "d", "-", "r", "o", "s", ".", "e", "x", "e">>
    [] s = "artifacts/pixi-build-backends" -> <<"a", "r", "t", "i", "f", "a", "c", "t", "s", "/", "p", "i", "x", "i", "-", "b", "u", "i", "l", "d", "-", "b", "a", "c", "k", "e", "n", "d", "s">>

\* Every string the model uses.
Universe ==
  {"Linux", "Darwin", "Windows", "FreeBSD", "linux",
   "darwin", "windows", "freebsd", "x86_64", "AMD64",
   "amd64", "aarch64", "arm64", "ARM64", "ppc64le",
   "i686", "win32", "freebsd13", "win", "linux-x86_64",
   "linux-aarch64", "macos-aarch64", "macos-x86_64", "windows-x86_64", "prefix-dev/pixi",
   "prefix-dev/pixi-build-backends", "/pixi", "/pixi-build-backends", "pixi-", "pixi-build-backends-",
   "pixi-build-", "pixi-linux-x86_64", "pixi-macos-aarch64", "pixi-windows-x86_64", "pixi-build-backends-linux-x86_64",
   "pixi-build-backends-windows-x86_64", "pixi-linux-x86_64-debug", "pixi-windows-x86_64-debug", "-debug", "pixi",
   "pixi.exe", ".exe", ".", "/", "bin/pixi",
   "bin", "bin/notpixi.exe", "notpixi.exe", "README.md", "pixi/pixi",
   "pixi-build-backends-v1/", "pixi-build-backends-v1", "pixi-build-backends-v1/pixi-build-rust", "pixi-build-rust", "pixi-build-cmake",
   "pixi-build-rust.exe", "v2/pixi-build-rust", "v2", "pixi-build-rust.pdb", "",
   "pixi.lock", "a/pixi.lock", "a/b/pixi.lock", "c/pixi.toml", "c/my-pixi.lock",
   "a", "b", "c", "pixi.toml", "my-pixi.lock",
   "0", "12", "abc", " ", " 12 ",
   "12 ", "13", "012", "https://prefix.dev/pixi-build-backends", "https://prefix.dev/conda-forge",
   "https://example.org/channel", "file:///repo/artifacts-channel", "file:///testsuite/artifacts/pixi-build-backends", "pixi-build-backends", "artifacts",
   "artifacts/pixi", "artifacts/pixi.exe", "artifacts/pixi/pixi", "artifacts/pixi/pixi.exe", "custom",
   "custom/pixi", "custom/pixi.exe", "missing", "missing/pixi", "missing/pixi.exe",
   "stale", "=", ",", "pixi-build-python", "pixi-build-rattler-build",
   "pixi-build-ros", "pixi-build-cmake.exe", "pixi-build-python.exe", "pixi-build-rattler-build.exe", "pixi-build-ros.exe",
   "artifacts/pixi-build-backends"}

\* CharsOf as a table, and the character sequence of a string.
CharsTable == [s \in Universe |-> CharsOf(s)]
Chars(s) == CharsTable[s]

\* The string with the given character sequence.
StrTable ==
  [cs \in {CharsTable[s] : s \in Universe} |->
     CHOOSE s \in Universe : CharsTable[s] = cs]
Str(cs) == StrTable[cs]

\* str.lower() on one character.
LowerChar(c) ==
  CASE c = "A" -> "a" [] c = "B" -> "b" [] c = "C" -> "c" [] c = "D" -> "d"
    [] c = "E" -> "e" [] c = "F" -> "f" [] c = "G" -> "g" [] c = "H" -> "h"
    [] c = "I" -> "i" [] c = "J" -> "j" [] c = "K" -> "k" [] c = "L" -> "l"
    [] c = "M" -> "m" [] c = "N" -> "n" [] c = "O" -> "o" [] c = "P" -> "p"
    [] c = "Q" -> "q" [] c = "R" -> "r" [] c = "S" -> "s" [] c = "T" -> "t"
    [] c = "U" -> "u" [] c = "V" -> "v" [] c = "W" -> "w" [] c = "X" -> "x"
    [] c = "Y" -> "y" [] c = "Z" -> "z" [] OTHER -> c

\* str.lower(): the character sequence of s, lower-cased.
Lower(s) == [i \in 1..Len(Chars(s)) |-> LowerChar(Chars(s)[i])]

\* s.startswith(prefix), on character sequences.
StartsWithCs(cs, prefix) ==
  /\ Len(prefix) <= Len(cs)
  /\ SubSeq(cs, 1, Len(prefix)) = prefix

\* s.endswith(suffix), on character sequences.
EndsWithCs(cs, suffix) ==
  /\ Len(suffix) <= Len(cs)
  /\ SubSeq(cs, Len(cs) - Len(suffix) + 1, Len(cs)) = suffix

\* `pattern in s`, on character sequences: pattern occurs as a contiguous run.
ContainsCs(cs, pattern) ==
  \E i \in 0..(Len(cs) - Len(pattern)) :
    SubSeq(cs, i + 1, i + Len(pattern)) = pattern

(***************************************************************************)
(* Platform tag: get_current_platform                                      *)
(***************************************************************************)

\* The value the model uses for a raised ValueError("Unsupported platform").
UnsupportedPlatform == "ValueError"

\* `machine in ["x86_64", "amd64"]`
IsX86(m) == m \in {Chars("x86_64"), Chars("amd64")}

\* `machine in ["aarch64", "arm64"]`
IsArm(m) == m \in {Chars("aarch64"), Chars("arm64")}

\* Windows also accepting arm64, with a sixth tag.
get_current_platform_arm_windows(sysname, machname) ==
  LET s == Lower(sysname)
      m == Lower(machname)
  IN  IF s = Chars("linux") /\ IsX86(m) THEN "linux-x86_64"
      ELSE IF s = Chars("linux") /\ IsArm(m) THEN "linux-aarch64"
      ELSE IF s = Chars("darwin") /\ IsArm(m) THEN "macos-aarch64"
      ELSE IF s = Chars("darwin") /\ IsX86(m) THEN "macos-x86_64"
      ELSE IF s = Chars("windows") /\ IsX86(m) THEN "windows-x86_64"
      ELSE IF s = Chars("windows") /\ IsArm(m) THEN "windows-aarch64"
      ELSE UnsupportedPlatform

\* get_current_platform(): the tag for platform.system() = sysname and
\* platform.machine() = machname, or UnsupportedPlatform when it raises.
get_current_platform(sysname, machname) ==
  LET s == Lower(sysname)
      m == Lower(machname)
  IN  IF s = Chars("linux")
      THEN IF IsX86(m) THEN "linux-x86_64"
           ELSE IF IsArm(m) THEN "linux-aarch64"
           ELSE UnsupportedPlatform
      ELSE IF s = Chars("darwin")
      THEN IF IsArm(m) THEN "macos-aarch64"
           ELSE IF IsX86(m) THEN "macos-x86_64"
           ELSE UnsupportedPlatform
      ELSE IF s = Chars("windows")
      THEN IF IsX86(m) THEN "windows-x86_64"
           ELSE UnsupportedPlatform
      ELSE UnsupportedPlatform

(***************************************************************************)
(* Artifact locator: pattern and get_matching_artifact                     *)
(***************************************************************************)

\* The value of an unset Optional (Python's None).
None == "None"

\* The two repositories main() downloads from.
PixiRepo == "prefix-dev/pixi"
BackendsRepo == "prefix-dev/pixi-build-backends"

\* artifact_name_pattern: f"pixi-{platform}" or
\* f"pixi-build-backends-{platform}", as a character sequence.
ArtifactNamePattern(repo, platform) ==
  IF EndsWithCs(Chars(repo), Chars("/pixi"))
  THEN Chars("pixi-") \o Chars(platform)
  ELSE IF EndsWithCs(Chars(repo), Chars("/pixi-build-backends"))
  THEN Chars("pixi-build-backends-") \o Chars(platform)
  ELSE <<>>

\* `artifact_name_pattern in artifact.name`
NameMatches(name, repo, platform) ==
  ContainsCs(Chars(name), ArtifactNamePattern(repo, platform))

\* The positions of the artifacts whose name matches.
MatchingPositions(artifacts, repo, platform) ==
  {i \in 1..Len(artifacts) : NameMatches(artifacts[i], repo, platform)}

\* The least element of a non-empty set of positions.
MinOf(S) == CHOOSE i \in S : \A j \in S : i <= j

\* The greatest element of a non-empty set of positions.
MaxOf(S) == CHOOSE i \in S : \A j \in S : j <= i

\* Returning the last match instead of the first.
get_matching_artifact_last(artifacts, repo, platform) ==
  LET hits == MatchingPositions(artifacts, repo, platform)
  IN  IF hits = {} THEN None ELSE artifacts[MaxOf(hits)]

\* get_matching_artifact: the first artifact, in listing order, whose name
\* contains the pattern; None when there is none.
get_matching_artifact(artifacts, repo, platform) ==
  LET hits == MatchingPositions(artifacts, repo, platform)
  IN  IF hits = {} THEN None ELSE artifacts[MinOf(hits)]

(***************************************************************************)
(* Archive entries and the output directory                                *)
(***************************************************************************)

\* The characters of cs from position i on.
Tail_(cs, i) == SubSeq(cs, i, Len(cs))

\* The position of the first "/" of cs, or 0.
FirstSlash(cs) ==
  LET hits == {i \in 1..Len(cs) : cs[i] = "/"}
  IN  IF hits = {} THEN 0 ELSE MinOf(hits)

RECURSIVE SplitPath(_)
\* The path components of a character sequence: split on "/", empty
\* components dropped (pathlib's normalisation of "a//b" and "a/").
SplitPath(cs) ==
  IF cs = <<>> THEN <<>>
  ELSE LET k == FirstSlash(cs)
       IN  IF k = 0 THEN <<Str(cs)>>
           ELSE IF k = 1 THEN SplitPath(Tail_(cs, 2))
           ELSE <<Str(SubSeq(cs, 1, k - 1))>> \o SplitPath(Tail_(cs, k + 1))

\* output_dir / file_name, relative to output_dir: the components.
PathOf(file_name) == SplitPath(Chars(file_name))

\* Path(file_name).name: the last component ("" when there is none).
PathName(file_name) ==
  LET p == PathOf(file_name)
  IN  IF p = <<>> THEN "" ELSE p[Len(p)]

\* output_dir / Path(file_name).name
FinalPath(file_name) ==
  IF PathName(file_name) = "" THEN <<>> ELSE <<PathName(file_name)>>

\* ZipInfo.is_dir(): the entry name ends with "/".
IsDirEntry(file_name) == EndsWithCs(Chars(file_name), Chars("/"))

\* sys.platform.startswith("win")
IsWindows(platform_name) == StartsWithCs(Chars(platform_name), Chars("win"))

\* The test of the pixi branch on one entry name.
IsPixiBinary(file_name) ==
  \/ file_name = "pixi"
  \/ EndsWithCs(Chars(file_name), Chars("/pixi"))
  \/ EndsWithCs(Chars(file_name), Chars("pixi.exe"))

\* The test of the backends branch on one entry name.
IsBackendExecutable(file_name, is_windows) ==
  LET base_name == Chars(PathName(file_name))
  IN  /\ StartsWithCs(base_name, Chars("pixi-build-"))
      /\ \/ is_windows /\ EndsWithCs(base_name, Chars(".exe"))
         \/ /\ ~is_windows
            /\ ~EndsWithCs(base_name, Chars(".exe"))
            /\ ~ContainsCs(base_name, Chars("."))

\* The pixi branch's search loop: the first entry passing the test.
FindPixiBinary(file_list) ==
  LET hits == {i \in 1..Len(file_list) : IsPixiBinary(file_list[i])}
  IN  IF hits = {} THEN <<>> ELSE <<file_list[MinOf(hits)]>>

\* The backends branch's collection loop: every entry passing the test.
FindBackendExecutables(file_list, is_windows) ==
  SelectSeq(file_list, LAMBDA f : IsBackendExecutable(f, is_windows))

\* The entries download_and_extract_artifact extracts for a repository.
MatchedEntries(repo, file_list, is_windows) ==
  IF repo = PixiRepo THEN FindPixiBinary(file_list)
  ELSE FindBackendExecutables(file_list, is_windows)

(***************************************************************************)
(* The output directory: a map from paths (component sequences, relative   *)
(* to output_dir) to what is there.                                        *)
(***************************************************************************)

\* Permission bits: a new file's (0o666 under umask 022) and chmod's 0o755.
DefaultFileMode == "0o644"
ExecMode == "0o755"

\* A regular file written from archive entry src (or left by an earlier tool).
FileRec(mode, src) == [kind |-> "file", mode |-> mode, src |-> src]

\* A directory (0o777 under umask 022).
DirRec == [kind |-> "dir", mode |-> ExecMode, src |-> ""]

\* Path.exists(), Path.is_dir(), Path.is_file()
Exists(dir, p) == p \in DOMAIN dir
IsDirAt(dir, p) == Exists(dir, p) /\ dir[p].kind = "dir"
IsFileAt(dir, p) == Exists(dir, p) /\ dir[p].kind = "file"

\* p is q or an ancestor of q.
IsPrefix(p, q) == Len(p) <= Len(q) /\ SubSeq(q, 1, Len(p)) = p

\* The non-empty proper prefixes of p: its parent directories in output_dir.
UpperDirs(p) == {SubSeq(p, 1, k) : k \in 1..(Len(p) - 1)}

\* dir without p and everything below it: unlink() and shutil.rmtree().
RemoveTree(dir, p) ==
  [q \in {r \in DOMAIN dir : ~IsPrefix(p, r)} |-> dir[q]]

\* dir with rec at p.
Put(dir, p, rec) ==
  [q \in DOMAIN dir \cup {p} |-> IF q = p THEN rec ELSE dir[q]]

\* dir with the directories of D that are not there yet: os.makedirs().
MakeDirs(dir, D) ==
  [q \in DOMAIN dir \cup D |-> IF q \in DOMAIN dir THEN dir[q] ELSE DirRec]

\* The result of a step on the output directory: the directory after it and
\* the exception it raised ("" for none).
Outcome(dir, err) == [dir |-> dir, err |-> err]

\* ZipFile.extract(member, output_dir). io_error: the copy of the member's
\* bytes fails after the target file was opened for writing.
ZipExtract(dir, member, io_error) ==
  LET target == PathOf(member)
      upper == UpperDirs(target)
      made == MakeDirs(dir, upper)
  IN  IF \E u \in upper : IsFileAt(dir, u)
      THEN Outcome(dir, "NotADirectoryError")
      ELSE IF IsDirEntry(member)
      THEN IF IsFileAt(made, target) THEN Outcome(made, "FileExistsError")
           ELSE IF IsDirAt(made, target) THEN Outcome(made, "")
           ELSE Outcome(Put(made, target, DirRec), "")
      ELSE IF IsDirAt(made, target) THEN Outcome(made, "IsADirectoryError")
      ELSE LET mode == IF IsFileAt(made, target) THEN made[target].mode
                       ELSE DefaultFileMode
               written == Put(made, target, FileRec(mode, member))
           IN  Outcome(written, IF io_error THEN "OSError" ELSE "")

\* dir with the tree at from moved to to.
MoveTree(dir, from, to) ==
  LET kept == {q \in DOMAIN dir : ~IsPrefix(from, q) /\ ~IsPrefix(to, q)}
      moved == {q \in DOMAIN dir : IsPrefix(from, q)}
      NewName(q) == to \o SubSeq(q, Len(from) + 1, Len(q))
      Old(r) == CHOOSE q \in moved : NewName(q) = r
  IN  [r \in kept \cup {NewName(q) : q \in moved} |->
         IF r \in kept THEN dir[r] ELSE dir[Old(r)]]

\* Whether a directory has something in it.
NonEmptyDir(dir, p) == \E q \in DOMAIN dir : IsPrefix(p, q) /\ q # p

\* Path.rename(target): os.rename. On Windows an existing target is an
\* error; on POSIX a file replaces a file and never a directory.
Rename(dir, from, to, is_windows) ==
  IF ~Exists(dir, from) THEN Outcome(dir, "FileNotFoundError")
  ELSE IF ~Exists(dir, to) THEN Outcome(MoveTree(dir, from, to), "")
  ELSE IF is_windows THEN Outcome(dir, "FileExistsError")
  ELSE IF IsFileAt(dir, from)
  THEN IF IsDirAt(dir, to) THEN Outcome(dir, "IsADirectoryError")
       ELSE Outcome(MoveTree(dir, from, to), "")
  ELSE IF IsFileAt(dir, to) THEN Outcome(dir, "NotADirectoryError")
  ELSE IF NonEmptyDir(dir, to) THEN Outcome(dir, "OSError")
  ELSE Outcome(MoveTree(dir, from, to), "")

\* Path.chmod(mode)
Chmod(dir, p, mode) == [dir EXCEPT ![p].mode = mode]

\* Both revisions of download-artifacts.py.
Testsuite == "testsuite/scripts/download-artifacts.py"
Scripts == "scripts/download-artifacts.py"

\* The testsuite revision's removal of an existing final_path (rmtree or
\* unlink); the scripts revision has none.
ClearFinalPath(dir, final, script) ==
  IF script = Testsuite /\ Exists(dir, final) THEN RemoveTree(dir, final)
  ELSE dir

\* The chmod of the extraction loop left out.
MakeExecutable_skipped(dir, final, platform_name) == dir

\* `if not sys.platform.startswith("win"): final_path.chmod(0o755)`
MakeExecutable(dir, final, platform_name) ==
  IF ~IsWindows(platform_name) THEN Chmod(dir, final, ExecMode) ELSE dir

\* `if extracted_path != final_path: extracted_path.rename(final_path)`
MoveToFinal(dir, extracted, final, is_windows) ==
  IF extracted # final THEN Rename(dir, extracted, final, is_windows)
  ELSE Outcome(dir, "")

\* One pass of the extraction loop for one matched entry: clear final_path
\* (testsuite revision), extract, move to final_path, chmod.
ExtractOne(dir, entry, script, platform_name, io_error) ==
  LET final == FinalPath(entry)
      cleared == ClearFinalPath(dir, final, script)
      ex == ZipExtract(cleared, entry, io_error)
      mv == MoveToFinal(ex.dir, PathOf(entry), final, IsWindows(platform_name))
  IN  IF ex.err # "" THEN ex
      ELSE IF mv.err # "" THEN mv
      ELSE Outcome(MakeExecutable(mv.dir, final, platform_name), "")

(***************************************************************************)
(* main() of download-artifacts.py                                         *)
(***************************************************************************)

\* An Optional[int] is <<>> for None and <<n>> for the integer n.
NoInt == <<>>

\* str.isdigit() on one character (ASCII digits).
IsDigitChar(c) == c \in {"0", "1", "2", "3", "4", "5", "6", "7", "8", "9"}

\* The value of one decimal digit.
DigitValue(c) ==
  CASE c = "0" -> 0 [] c = "1" -> 1 [] c = "2" -> 2 [] c = "3" -> 3
    [] c = "4" -> 4 [] c = "5" -> 5 [] c = "6" -> 6 [] c = "7" -> 7
    [] c = "8" -> 8 [] c = "9" -> 9

RECURSIVE IntOfDigits(_)
\* int(s) for a sequence of decimal digits.
IntOfDigits(cs) ==
  IF cs = <<>> THEN 0
  ELSE 10 * IntOfDigits(SubSeq(cs, 1, Len(cs) - 1)) + DigitValue(cs[Len(cs)])

\* `int(pr_number) if pr_number and pr_number.isdigit() else None`
PrNumberInt(pr_number) ==
  IF /\ pr_number # None
     /\ Chars(pr_number) # <<>>
     /\ \A i \in 1..Len(Chars(pr_number)) : IsDigitChar(Chars(pr_number)[i])
  THEN <<IntOfDigits(Chars(pr_number))>>
  ELSE NoInt

\* Python truthiness of an Optional[int]: `if run_id:`, `elif pr_number:`.
Truthy(n) == n # NoInt /\ n[1] # 0

\* The workflow main() pairs with each repository.
WorkflowOf(repo) == IF repo = PixiRepo THEN "CI" ELSE "Testsuite"

\* ArtifactTarget(repo, workflow, os.getenv(...)): the PR number is read from
\* the environment when the target is taken up (the environment does not
\* change while main() runs).
ArtifactTarget(repo) == [repo |-> repo, workflow |-> WorkflowOf(repo)]

\* The targets list main() builds from --repo.
TargetsFor(repo_arg) ==
  IF repo_arg = "pixi" THEN <<ArtifactTarget(PixiRepo)>>
  ELSE IF repo_arg = "pixi-build-backends" THEN <<ArtifactTarget(BackendsRepo)>>
  ELSE <<ArtifactTarget(PixiRepo), ArtifactTarget(BackendsRepo)>>

\* The outcomes of get_token_from_gh(): no gh executable, `gh auth token`
\* fails, prints nothing, or prints a token.
GhOutcomes == {"no_gh", "gh_failed", "gh_empty", "gh_token"}

\* get_token_from_gh(): the token, or None.
get_token_from_gh(gh) == IF gh = "gh_token" THEN "token" ELSE None

\* `args.token or os.getenv("GITHUB_TOKEN") or get_token_from_gh()` in the
\* testsuite revision; the scripts revision stops at GITHUB_TOKEN.
ResolveToken(script, token_arg, token_env, gh) ==
  IF token_arg # None /\ token_arg # "" THEN token_arg
  ELSE IF token_env # None /\ token_env # "" THEN token_env
  ELSE IF script = Testsuite THEN get_token_from_gh(gh)
  ELSE None

\* The process exit status of sys.exit(arg): sys.exit() and sys.exit(None)
\* exit with status 0.
SysExit(arg) == IF arg = NoInt THEN 0 ELSE arg[1]

\* The argument of the sys.exit call after "No GitHub token provided":
\* sys.exit(1) in the testsuite revision, sys.exit() in the scripts revision.
NoTokenExitArg(script) == IF script = Testsuite THEN <<1>> ELSE NoInt

(***************************************************************************)
(* State                                                                   *)
(***************************************************************************)

VARIABLES
  script,          \* which revision of download-artifacts.py runs
  system,          \* platform.system()
  machine,         \* platform.machine()
  sys_platform,    \* sys.platform
  pc,              \* position of the running script
  exit_code,       \* the process exit status, <<>> while it runs
  console,         \* the messages main() printed in this run
  github_token,    \* main(): github_token
  targets,         \* main(): the targets not taken up yet
  args_run_id,     \* main(): args.run_id
  target_branch,   \* main() of the scripts revision: target_branch
  overall_success, \* main(): overall_success
  target,          \* the target download_github_artifact runs for, <<>> if none
  run_id,          \* download_github_artifact: run_id
  pr_number,       \* download_github_artifact: pr_number
  current_platform,\* download_github_artifact: current_platform
  pr,              \* download_github_artifact: pr, <<>> for None
  selected_run,    \* download_github_artifact: selected_run, <<>> for None/unbound
  artifacts,       \* download_github_artifact: artifacts (names)
  target_artifact, \* download_github_artifact: target_artifact (name) or None
  calls,           \* the GitHub requests made in this run of main()
  listed,          \* the runs whose artifacts this call listed, in order
  error,           \* the exception the current call raised
  output_dir,      \* the artifacts directory
  dir_before,      \* the artifacts directory when the current extraction began
  metadata,        \* download-metadata.json: repository -> entry
  temp_files,      \* temporary zip files on disk
  file_list,       \* download_and_extract_artifact: file_list
  matched,         \* pixi_binary / backend_executables
  ext_i,           \* how many matched entries have been extracted
  base_path,       \* update-lockfiles: what base_path is
  lock_tree,       \* update-lockfiles: directories below base_path with a pixi.lock
  lockfiles,       \* update-lockfiles: the list rglob returned (parents)
  lock_i,          \* update-lockfiles: lockfiles processed so far
  invoked,         \* update-lockfiles: the directories `pixi lock` ran in, in order
  lock_pc,         \* update-lockfiles: position
  lock_exit,       \* update-lockfiles: exit status, <<>> while it runs
  lock_console,    \* update-lockfiles: messages printed
  metadata_file,   \* write_metadata: what artifacts/download-metadata.json holds
  writers,         \* write_metadata: each running call's position and locals
  environ,         \* pytest session: os.environ after load_dotenv
  expected_head,   \* the head commit of the configured PR or branch right now
  session,         \* pytest session: "collecting", "running" or the error raised
  repos,           \* build-repos: what each variable points at and how git and pixi answer there
  build_pc,        \* build-repos: position of main()
  commands,        \* build-repos: the commands run so far, in order
  success,         \* build-repos: main(): success
  build_exit,      \* build-repos: exit status, <<>> while it runs
  cli_call,        \* verify_cli_command: the arguments and what the process did
  cli_result,      \* verify_cli_command: what the call came to, <<>> before it
  manifest_src,    \* copy_manifest: the file at src
  local_channels,  \* get_local_backend_channel: which channel directories hold a repodata.json
  manifest_dst,    \* copy_manifest: the file at dst, <<>> before the copy
  manifest_raised, \* copy_manifest: whether the call raised
  pixi_bin_dir,    \* pixi(): os.environ["PIXI_BIN_DIR"], None when unset
  bin_tree,        \* pixi(): what is at each path the resolver looks at
  resolved,        \* pixi(): what each call so far came to
  shared,          \* the project directory below tests/data: the paths that exist
  running,         \* the tests under way: position, entries listed, shared paths read and deleted
  fixture_variant, \* build_backends: the conftest.py it comes from
  backend_env,     \* build_backends: the variables it reads and sets
  backend_tree,    \* build_backends: what is at each path it looks at
  repodata,        \* build_backends: a repodata.json is below artifacts/pixi-build-backends
  fixture_outcome, \* build_backends: "" before the fixture ran, then "returned" or the exception
  cached,          \* the artifacts directory across invocations: executable name -> the run its bytes are from
  cache_metadata,  \* download-metadata.json across invocations: repository -> recorded run
  fetch,           \* the invocation under way: repository, run, matched entries, entries extracted
  fetches,         \* invocations started so far
  pr_numbers,      \* the *_PR_NUMBER variables the download and the session both run under
  entries,         \* download-metadata.json as the download under those variables leaves it
  validation,      \* "" before the session starts, then "passed" or the error the validation raised
  agree_pc,        \* position: the download, the session start, done
  config_variant,  \* which conftest.py the session runs, with the download script beside it
  os_environ,      \* a *_PR_NUMBER variable in the environment both processes start with, None when unset
  env_file,        \* the variable in .env, None when the file or the key is missing
  env_ci_file,     \* the variable in .env.ci, None when the file or the key is missing
  download_env,    \* os.getenv in download-artifacts.py after load_env_files, <<>> before
  session_env      \* os.getenv in the test session after load_dotenv, <<>> before

host == <<script, system, machine, sys_platform>>
main_vars == <<github_token, targets, args_run_id, target_branch, overall_success>>
call_vars == <<target, run_id, pr_number, current_platform, pr, selected_run,
               artifacts, target_artifact, listed>>
disk_vars == <<output_dir, metadata, temp_files>>
extract_vars == <<dir_before, file_list, matched, ext_i>>
download_vars == <<pc, exit_code, console, main_vars, call_vars,
                   calls, error, disk_vars, extract_vars>>
lock_vars == <<base_path, lock_tree, lockfiles, lock_i, invoked, lock_pc,
               lock_exit, lock_console>>
meta_vars == <<metadata_file, writers>>
session_vars == <<environ, expected_head, session>>
build_vars == <<repos, build_pc, commands, success, build_exit>>
cli_vars == <<cli_call, cli_result>>
manifest_vars == <<manifest_src, local_channels, manifest_dst, manifest_raised>>
resolver_vars == <<pixi_bin_dir, bin_tree, resolved>>
tests_vars == <<shared, running>>
backends_vars == <<fixture_variant, backend_env, backend_tree, repodata, fixture_outcome>>
cache_vars == <<cached, cache_metadata, fetch, fetches>>
agree_vars == <<pr_numbers, entries, validation, agree_pc>>
config_vars == <<config_variant, os_environ, env_file, env_ci_file, download_env, session_env>>
other_vars == <<meta_vars, session_vars, build_vars, cli_vars, manifest_vars, resolver_vars, tests_vars, backends_vars, cache_vars, agree_vars, config_vars>>
vars == <<host, download_vars, lock_vars, other_vars>>

(***************************************************************************)
(* Bounds and input sets                                                   *)
(***************************************************************************)

\* The most runs a workflow listing holds.
MaxRuns == 4
\* The most artifacts one run has.
MaxArtifacts == 2

\* `itertools.islice(runs, 3)`
RunScanLimit == 3

\* The hosts the download scripts are run on: platform.system(),
\* platform.machine(), sys.platform.
Hosts ==
  {<<"Linux", "x86_64", "linux">>, <<"Windows", "AMD64", "win32">>,
   <<"FreeBSD", "amd64", "freebsd13">>}

\* The values of --run-id.
RunIdArgs == {NoInt, <<0>>, <<7>>}

\* The values of PIXI_PR_NUMBER / BUILD_BACKENDS_PR_NUMBER (None: unset).
PrEnvValues == {None, "0", "12", "abc"}

\* The values of PIXI_CI_REPO_BRANCH / BUILD_BACKENDS_CI_REPO_BRANCH after
\* the default "main" was applied.
TargetBranches == {"main", "release"}

\* Artifact names a run of the CI may carry for a platform tag: the pixi
\* binary, a second pixi artifact, the backends.
ArtifactNames(tag) ==
  {Str(Chars("pixi-") \o Chars(tag)),
   Str(Chars("pixi-") \o Chars(tag) \o Chars("-debug")),
   Str(Chars("pixi-build-backends-") \o Chars(tag))}

\* The sequences over S of length at most n.
SeqsUpTo(S, n) == UNION {[1..k -> S] : k \in 0..n}

\* The artifact listings of one run.
ArtifactLists(tag) == SeqsUpTo(ArtifactNames(tag), MaxArtifacts)

\* The entry lists (namelist()) of the archives an artifact of a repository
\* may hold.
Archives(repo) ==
  IF repo = PixiRepo
  THEN {<<"pixi">>, <<"README.md", "bin/pixi">>, <<"README.md">>,
        <<"bin/notpixi.exe">>, <<"pixi.exe">>, <<"pixi/pixi">>}
  ELSE {<<"README.md">>,
        <<"pixi-build-backends-v1/pixi-build-rust">>,
        <<"pixi-build-backends-v1/", "pixi-build-backends-v1/pixi-build-rust">>,
        <<"pixi-build-cmake", "v2/pixi-build-rust">>,
        <<"pixi-build-rust.exe", "pixi-build-rust.pdb">>}

\* No exception.
NoError == [type |-> "", msg |-> "", available |-> <<>>]

\* An exception with its message; available: the artifact names it lists.
Raise(type, msg, available) == [type |-> type, msg |-> msg, available |-> available]

\* The empty directory.
EmptyDir == [p \in {} |-> DirRec]

\* The empty metadata file (absent).
NoMetadata == [r \in {} |-> 0]

(***************************************************************************)
(* download_github_artifact and download_and_extract_artifact, step by     *)
(* step                                                                    *)
(***************************************************************************)

\* download_github_artifact holds no call: its locals are gone.
CallReset ==
  /\ target' = <<>>
  /\ run_id' = NoInt
  /\ pr_number' = NoInt
  /\ current_platform' = ""
  /\ pr' = <<>>
  /\ selected_run' = <<>>
  /\ artifacts' = <<>>
  /\ target_artifact' = None
  /\ listed' = <<>>
  /\ dir_before' = EmptyDir
  /\ file_list' = <<>>
  /\ matched' = <<>>
  /\ ext_i' = 0

\* Nothing of main() or download_github_artifact has run yet.
DownloadIdle ==
  /\ exit_code = NoInt
  /\ console = {}
  /\ github_token = None
  /\ targets = <<>>
  /\ args_run_id = NoInt
  /\ target_branch = "main"
  /\ overall_success = TRUE
  /\ target = <<>>
  /\ run_id = NoInt
  /\ pr_number = NoInt
  /\ current_platform = ""
  /\ pr = <<>>
  /\ selected_run = <<>>
  /\ artifacts = <<>>
  /\ target_artifact = None
  /\ calls = {}
  /\ listed = <<>>
  /\ error = NoError
  /\ output_dir = EmptyDir
  /\ dir_before = EmptyDir
  /\ metadata = NoMetadata
  /\ temp_files = 0
  /\ file_list = <<>>
  /\ matched = <<>>
  /\ ext_i = 0

\* No call of write_metadata on its own is under way.
MetaIdle ==
  /\ metadata_file = [kind |-> "absent", value |-> NoMetadata]
  /\ writers = <<>>

\* No pytest session is starting.
SessionIdle ==
  /\ environ = <<>>
  /\ expected_head = ""
  /\ session = "none"

\* build-repos.py is not running.
BuildIdle ==
  /\ repos = <<>>
  /\ build_pc = "idle"
  /\ commands = <<>>
  /\ success = TRUE
  /\ build_exit = NoInt

\* verify_cli_command is not being called.
CliIdle ==
  /\ cli_call = <<>>
  /\ cli_result = <<>>

\* copy_manifest is not being called.
ManifestIdle ==
  /\ manifest_src = <<>>
  /\ local_channels = {}
  /\ manifest_dst = <<>>
  /\ manifest_raised = FALSE

\* pixi() is not being called.
ResolverIdle ==
  /\ pixi_bin_dir = None
  /\ bin_tree = <<>>
  /\ resolved = <<>>

\* No test is running.
TestsIdle ==
  /\ shared = {}
  /\ running = <<>>

\* The build_backends fixture is not running.
BackendsIdle ==
  /\ fixture_variant = "none"
  /\ backend_env = <<>>
  /\ backend_tree = <<>>
  /\ repodata = FALSE
  /\ fixture_outcome = ""

\* No download into the artifacts directory is being followed across invocations.
CacheIdle ==
  /\ cached = <<>>
  /\ cache_metadata = <<>>
  /\ fetch = <<>>
  /\ fetches = 0

\* No download followed by a test session is being followed.
AgreeIdle ==
  /\ pr_numbers = <<>>
  /\ entries = <<>>
  /\ validation = ""
  /\ agree_pc = "idle"

\* No configuration is being resolved.
ConfigIdle ==
  /\ config_variant = "none"
  /\ os_environ = None
  /\ env_file = None
  /\ env_ci_file = None
  /\ download_env = <<>>
  /\ session_env = <<>>

\* update-lockfiles.py is not running.
LockIdle ==
  /\ base_path = "missing"
  /\ lock_tree = {}
  /\ lockfiles = <<>>
  /\ lock_i = 0
  /\ invoked = <<>>
  /\ lock_pc = "idle"
  /\ lock_exit = NoInt
  /\ lock_console = {}

\* The components modelled on their own are not running.
OthersIdle ==
  /\ MetaIdle
  /\ SessionIdle
  /\ BuildIdle
  /\ CliIdle
  /\ ManifestIdle
  /\ ResolverIdle
  /\ TestsIdle
  /\ BackendsIdle
  /\ CacheIdle
  /\ AgreeIdle
  /\ ConfigIdle

\* The host a component modelled on its own runs on.
HostIdle ==
  /\ script = Testsuite
  /\ system = "Linux" /\ machine = "x86_64" /\ sys_platform = "linux"
  /\ pc = "idle"
  /\ DownloadIdle
  /\ LockIdle

\* Everything but the meta component's variables, and those at rest.
beside_meta == <<host, download_vars, lock_vars, session_vars, build_vars, cli_vars, manifest_vars, resolver_vars, tests_vars, backends_vars, cache_vars, agree_vars, config_vars>>
Rest_meta == SessionIdle /\ BuildIdle /\ CliIdle /\ ManifestIdle /\ ResolverIdle /\ TestsIdle /\ BackendsIdle /\ CacheIdle /\ AgreeIdle /\ ConfigIdle
Only_meta == HostIdle /\ Rest_meta

\* Everything but the session component's variables, and those at rest.
beside_session == <<host, download_vars, lock_vars, meta_vars, build_vars, cli_vars, manifest_vars, resolver_vars, tests_vars, backends_vars, cache_vars, agree_vars, config_vars>>
Rest_session == BuildIdle /\ CliIdle /\ ManifestIdle /\ ResolverIdle /\ TestsIdle /\ BackendsIdle /\ CacheIdle /\ AgreeIdle /\ ConfigIdle
Only_session == HostIdle /\ Rest_session

\* Everything but the build component's variables, and those at rest.
beside_build == <<host, download_vars, lock_vars, meta_vars, session_vars, cli_vars, manifest_vars, resolver_vars, tests_vars, backends_vars, cache_vars, agree_vars, config_vars>>
Rest_build == MetaIdle /\ SessionIdle /\ CliIdle /\ ManifestIdle /\ ResolverIdle /\ TestsIdle /\ BackendsIdle /\ CacheIdle /\ AgreeIdle /\ ConfigIdle
Only_build == HostIdle /\ Rest_build

\* Everything but the cli component's variables, and those at rest.
beside_cli == <<host, download_vars, lock_vars, meta_vars, session_vars, build_vars, manifest_vars, resolver_vars, tests_vars, backends_vars, cache_vars, agree_vars, config_vars>>
Rest_cli == MetaIdle /\ SessionIdle /\ BuildIdle /\ ManifestIdle /\ ResolverIdle /\ TestsIdle /\ BackendsIdle /\ CacheIdle /\ AgreeIdle /\ ConfigIdle
Only_cli == HostIdle /\ Rest_cli

\* Everything but the manifest component's variables, and those at rest.
beside_manifest == <<host, download_vars, lock_vars, meta_vars, session_vars, build_vars, cli_vars, resolver_vars, tests_vars, backends_vars, cache_vars, agree_vars, config_vars>>
Rest_manifest == MetaIdle /\ SessionIdle /\ BuildIdle /\ CliIdle /\ ResolverIdle /\ TestsIdle /\ BackendsIdle /\ CacheIdle /\ AgreeIdle /\ ConfigIdle
Only_manifest == HostIdle /\ Rest_manifest

\* Everything but the resolver component's variables, and those at rest.
beside_resolver == <<host, download_vars, lock_vars, meta_vars, session_vars, build_vars, cli_vars, manifest_vars, tests_vars, backends_vars, cache_vars, agree_vars, config_vars>>
Rest_resolver == MetaIdle /\ SessionIdle /\ BuildIdle /\ CliIdle /\ ManifestIdle /\ TestsIdle /\ BackendsIdle /\ CacheIdle /\ AgreeIdle /\ ConfigIdle
Only_resolver == HostIdle /\ Rest_resolver

\* Everything but the tests component's variables, and those at rest.
beside_tests == <<host, download_vars, lock_vars, meta_vars, session_vars, build_vars, cli_vars, manifest_vars, resolver_vars, backends_vars, cache_vars, agree_vars, config_vars>>
Rest_tests == MetaIdle /\ SessionIdle /\ BuildIdle /\ CliIdle /\ ManifestIdle /\ ResolverIdle /\ BackendsIdle /\ CacheIdle /\ AgreeIdle /\ ConfigIdle
Only_tests == HostIdle /\ Rest_tests

\* Everything but the backends component's variables, and those at rest.
beside_backends == <<host, download_vars, lock_vars, meta_vars, session_vars, build_vars, cli_vars, manifest_vars, resolver_vars, tests_vars, cache_vars, agree_vars, config_vars>>
Rest_backends == MetaIdle /\ SessionIdle /\ BuildIdle /\ CliIdle /\ ManifestIdle /\ ResolverIdle /\ TestsIdle /\ CacheIdle /\ AgreeIdle /\ ConfigIdle
Only_backends == HostIdle /\ Rest_backends

\* Everything but the cache component's variables, and those at rest.
beside_cache == <<host, download_vars, lock_vars, meta_vars, session_vars, build_vars, cli_vars, manifest_vars, resolver_vars, tests_vars, backends_vars, agree_vars, config_vars>>
Rest_cache == MetaIdle /\ SessionIdle /\ BuildIdle /\ CliIdle /\ ManifestIdle /\ ResolverIdle /\ TestsIdle /\ BackendsIdle /\ AgreeIdle /\ ConfigIdle
Only_cache == HostIdle /\ Rest_cache

\* Everything but the agree component's variables, and those at rest.
beside_agree == <<host, download_vars, lock_vars, meta_vars, session_vars, build_vars, cli_vars, manifest_vars, resolver_vars, tests_vars, backends_vars, cache_vars, config_vars>>
Rest_agree == MetaIdle /\ SessionIdle /\ BuildIdle /\ CliIdle /\ ManifestIdle /\ ResolverIdle /\ TestsIdle /\ BackendsIdle /\ CacheIdle /\ ConfigIdle
Only_agree == HostIdle /\ Rest_agree

\* Everything but the config component's variables, and those at rest.
beside_config == <<host, download_vars, lock_vars, meta_vars, session_vars, build_vars, cli_vars, manifest_vars, resolver_vars, tests_vars, backends_vars, cache_vars, agree_vars>>
Rest_config == MetaIdle /\ SessionIdle /\ BuildIdle /\ CliIdle /\ ManifestIdle /\ ResolverIdle /\ TestsIdle /\ BackendsIdle /\ CacheIdle /\ AgreeIdle
Only_config == HostIdle /\ Rest_config

\* The values --repo can take: optional in the testsuite revision, a
\* required positional in the scripts revision.
RepoArgs(s) ==
  IF s = Testsuite THEN {None, "pixi", "pixi-build-backends"}
  ELSE {"pixi", "pixi-build-backends"}

\* A check of --run-id against --repo that never objects.
RunIdWithoutRepo_ignored(repo_arg, rid) == FALSE

\* main(): `args.repo is None and args.run_id is not None`.
RunIdWithoutRepo(repo_arg, rid) == repo_arg = None /\ rid # NoInt

MainStart ==
  /\ pc = "start"
  /\ \E repo_arg \in RepoArgs(script), rid \in RunIdArgs,
        token_arg \in {None, "token"}, token_env \in {None, "", "token"},
        gh \in GhOutcomes, branch \in TargetBranches :
       LET token == ResolveToken(script, token_arg, token_env, gh)
       IN  IF script = Testsuite /\ RunIdWithoutRepo(repo_arg, rid)
           THEN /\ console' = {"--run-id can only be used together with --repo"}
                /\ exit_code' = <<SysExit(<<1>>)>>
                /\ pc' = "exit"
                /\ UNCHANGED main_vars
           ELSE IF token = None
           THEN /\ console' = {"No GitHub token provided"}
                /\ exit_code' = <<SysExit(NoTokenExitArg(script))>>
                /\ pc' = "exit"
                /\ UNCHANGED main_vars
           ELSE /\ github_token' = token
                /\ targets' = TargetsFor(repo_arg)
                /\ args_run_id' = rid
                /\ target_branch' = IF script = Scripts THEN branch ELSE "main"
                /\ overall_success' = TRUE
                /\ pc' = "target"
                /\ UNCHANGED <<console, exit_code>>
  /\ UNCHANGED <<host, other_vars, call_vars, calls, error, disk_vars,
                 extract_vars, lock_vars>>

\* The run source the PR number decides before the run id.
RunSource_pr_first(s, rid, prn) ==
  IF s = Testsuite /\ Truthy(prn) THEN "pr"
  ELSE IF Truthy(rid) THEN "run_id"
  ELSE "branch"

\* `if run_id: ... elif pr_number: ... else: ...` (the scripts revision has
\* no PR branch).
RunSource(s, rid, prn) ==
  IF Truthy(rid) THEN "run_id"
  ELSE IF s = Testsuite /\ Truthy(prn) THEN "pr"
  ELSE "branch"

\* The get_runs request of a run source.
RunsQuery(source, branch) ==
  IF source = "pr" THEN "get_runs(head_sha=pr.head.sha)"
  ELSE IF branch = "main" THEN "get_runs(branch=main, event=push)"
  ELSE "get_runs(branch=release, event=push)"

\* The current call raises: control leaves download_github_artifact.
RaiseError(type, msg, available) ==
  /\ error' = Raise(type, msg, available)
  /\ pc' = "raised"

\* main() takes up the next target and calls download_github_artifact, which
\* runs up to the choice of the run source: platform tag, client, repository.
BeginTarget ==
  /\ pc = "target"
  /\ targets # <<>>
  /\ \E pr_env \in PrEnvValues, net_ok \in BOOLEAN :
       LET t == Head(targets)
           tag == get_current_platform(system, machine)
       IN  /\ targets' = Tail(targets)
           /\ target' = <<t>>
           /\ run_id' = args_run_id
           /\ pr_number' = IF script = Testsuite THEN PrNumberInt(pr_env) ELSE NoInt
           /\ IF tag = UnsupportedPlatform
              THEN /\ RaiseError("ValueError", "Unsupported platform", <<>>)
                   /\ current_platform' = ""
                   /\ calls' = {}
              ELSE IF ~net_ok
              THEN /\ RaiseError("GithubException", "get_repo", <<>>)
                   /\ current_platform' = tag
                   /\ calls' = {"get_repo"}
              ELSE IF ArtifactNamePattern(t.repo, tag) = <<>>
              THEN /\ RaiseError("ValueError", "Unsupported repository", <<>>)
                   /\ current_platform' = tag
                   /\ calls' = {"get_repo"}
              ELSE /\ pc' = "select"
                   /\ error' = NoError
                   /\ current_platform' = tag
                   /\ calls' = {"get_repo"}
  /\ UNCHANGED <<host, other_vars, exit_code, console, github_token,
                 args_run_id, target_branch, overall_success, pr, selected_run,
                 artifacts, target_artifact, listed, disk_vars,
                 extract_vars, lock_vars>>

\* A log entry: the artifacts of run were listed, with the match found.
Listing(run, hit) == [run |-> run, hit |-> hit]

\* The run-id branch: fetch that run and list its artifacts.
SelectByRunId ==
  /\ pc = "select"
  /\ RunSource(script, run_id, pr_number) = "run_id"
  /\ \E found \in BOOLEAN, arts \in ArtifactLists(current_platform) :
       IF ~found
       THEN /\ RaiseError("GithubException", "get_workflow_run", <<>>)
            /\ calls' = calls \cup {"get_workflow_run"}
            /\ UNCHANGED <<selected_run, artifacts, target_artifact, listed>>
       ELSE LET run == [via |-> "get_workflow_run", id |-> run_id[1]]
                hit == get_matching_artifact(arts, target[1].repo, current_platform)
            IN  /\ calls' = calls \cup {"get_workflow_run", "get_artifacts"}
                /\ selected_run' = <<run>>
                /\ artifacts' = arts
                /\ target_artifact' = hit
                /\ listed' = <<Listing(run, hit)>>
                /\ pc' = "located"
                /\ UNCHANGED error
  /\ UNCHANGED <<host, other_vars, exit_code, console, main_vars, target,
                 run_id, pr_number, current_platform, pr, disk_vars,
                 extract_vars, lock_vars>>

\* The PR branch and the branch branch up to the listing of the runs: the
\* pull request (PR branch), the workflow by name, its runs.
SelectByListing ==
  /\ pc = "select"
  /\ RunSource(script, run_id, pr_number) \in {"pr", "branch"}
  /\ \E pull_found \in BOOLEAN, wf_found \in BOOLEAN :
       LET source == RunSource(script, run_id, pr_number)
           first == IF source = "pr" THEN {"get_pull"} ELSE {}
       IN  IF source = "pr" /\ ~pull_found
           THEN /\ RaiseError("GithubException", "get_pull", <<>>)
                /\ calls' = calls \cup first
                /\ UNCHANGED pr
           ELSE IF ~wf_found
           THEN /\ RaiseError("ValueError", "Could not find workflow", <<>>)
                /\ calls' = calls \cup first \cup {"get_workflows"}
                /\ pr' = IF source = "pr" THEN <<[number |-> pr_number[1]]>> ELSE <<>>
           ELSE /\ calls' = calls \cup first \cup
                              {"get_workflows", RunsQuery(source, target_branch)}
                /\ pr' = IF source = "pr" THEN <<[number |-> pr_number[1]]>> ELSE <<>>
                /\ pc' = "scan"
                /\ UNCHANGED error
  /\ UNCHANGED <<host, other_vars, exit_code, console, main_vars, target,
                 run_id, pr_number, current_platform, selected_run, artifacts,
                 target_artifact, listed, disk_vars, extract_vars, lock_vars>>

\* The smaller of two numbers.
Min(a, b) == IF a <= b THEN a ELSE b

\* `for selected_run in itertools.islice(runs, 3): ... if target_artifact:
\* break`: whether the loop takes another run after `done` runs.
ScanContinues(done, n, found) == done < Min(n, RunScanLimit) /\ found = None

\* One pass of the loop: the listing holds another run (it holds at most
\* MaxRuns); its artifacts are listed and searched.
ScanRun ==
  /\ pc = "scan"
  /\ \E n \in (Len(listed) + 1)..MaxRuns :
       ScanContinues(Len(listed), n, target_artifact)
  /\ \E arts \in ArtifactLists(current_platform) :
       LET run == [via |-> RunsQuery(RunSource(script, run_id, pr_number),
                                     target_branch),
                   id |-> Len(listed) + 1]
           hit == get_matching_artifact(arts, target[1].repo, current_platform)
       IN  /\ selected_run' = <<run>>
           /\ artifacts' = arts
           /\ target_artifact' = hit
           /\ listed' = Append(listed, Listing(run, hit))
           /\ calls' = calls \cup {"get_artifacts"}
  /\ UNCHANGED <<host, other_vars, pc, exit_code, console, main_vars, target,
                 run_id, pr_number, current_platform, pr, error,
                 disk_vars, extract_vars, lock_vars>>

\* After the run was chosen (the run-id branch, or the loop ended: a match,
\* the limit, or the end of the listing): the checks on selected_run and
\* target_artifact, then output_dir.mkdir.
AfterLocate ==
  /\ \/ pc = "located"
     \/ /\ pc = "scan"
        /\ \E n \in Len(listed)..MaxRuns :
             ~ScanContinues(Len(listed), n, target_artifact)
  /\ IF selected_run = <<>> /\ script = Scripts
     THEN /\ RaiseError("UnboundLocalError", "selected_run", <<>>)
          /\ UNCHANGED artifacts
     ELSE IF selected_run = <<>>
     THEN /\ RaiseError("ValueError", "Could not find a suitable workflow run", <<>>)
          /\ UNCHANGED artifacts
     ELSE IF target_artifact = None
     THEN /\ RaiseError("FileNotFoundError",
                        "Could not find artifact matching pattern", artifacts)
          /\ UNCHANGED artifacts
     ELSE /\ pc' = "download"
          /\ artifacts' = <<>>
          /\ UNCHANGED error
  /\ UNCHANGED <<host, other_vars, exit_code, console, main_vars, target,
                 run_id, pr_number, current_platform, pr, selected_run,
                 target_artifact, calls, listed, disk_vars, extract_vars,
                 lock_vars>>

\* download_and_extract_artifact up to the open archive: the streamed
\* download to a NamedTemporaryFile(delete=False), then namelist().
Download ==
  /\ pc = "download"
  /\ \E outcome \in {"status_error", "stream_error", "ok"}, names \in Archives(target[1].repo) :
       /\ calls' = calls \cup {"download"}
       /\ dir_before' = output_dir
       /\ IF outcome = "status_error"
          THEN /\ RaiseError("HTTPStatusError", "raise_for_status", <<>>)
               /\ UNCHANGED <<temp_files, file_list>>
          ELSE IF outcome = "stream_error"
          THEN /\ RaiseError("ReadError", "iter_bytes", <<>>)
               /\ temp_files' = temp_files + 1
               /\ UNCHANGED file_list
          ELSE /\ temp_files' = temp_files + 1
               /\ file_list' = names
               /\ pc' = "find"
               /\ UNCHANGED error
  /\ UNCHANGED <<host, other_vars, exit_code, console, main_vars, target,
                 run_id, pr_number, current_platform, pr, selected_run,
                 artifacts, target_artifact, listed, output_dir, metadata,
                 matched, ext_i, lock_vars>>

\* The search of the entry names: the pixi binary, or every backend
\* executable; FileNotFoundError when there is none.
FindExecutables ==
  /\ pc = "find"
  /\ LET repo == target[1].repo
         found == MatchedEntries(repo, file_list, IsWindows(sys_platform))
     IN  IF repo \notin {PixiRepo, BackendsRepo}
         THEN /\ RaiseError("ValueError", "Unsupported repository", <<>>)
              /\ UNCHANGED <<matched, ext_i>>
         ELSE IF found = <<>>
         THEN /\ RaiseError("FileNotFoundError",
                            IF repo = PixiRepo
                            THEN "Could not find pixi binary in archive"
                            ELSE "Could not find any pixi-build-* executables in archive",
                            <<>>)
              /\ UNCHANGED <<matched, ext_i>>
         ELSE /\ matched' = found
              /\ ext_i' = 0
              /\ pc' = "extract"
              /\ UNCHANGED error
  /\ UNCHANGED <<host, other_vars, exit_code, console, main_vars, target,
                 run_id, pr_number, current_platform, pr, selected_run,
                 artifacts, target_artifact, calls, listed, disk_vars,
                 dir_before, file_list, lock_vars>>

\* The extraction of the next matched entry.
ExtractEntry ==
  /\ pc = "extract"
  /\ ext_i < Len(matched)
  /\ \E io_error \in BOOLEAN :
       LET res == ExtractOne(output_dir, matched[ext_i + 1], script,
                             sys_platform, io_error)
       IN  /\ output_dir' = res.dir
           /\ IF res.err # ""
              THEN /\ RaiseError(res.err, "extract", <<>>)
                   /\ UNCHANGED ext_i
              ELSE /\ ext_i' = ext_i + 1
                   /\ UNCHANGED <<pc, error>>
  /\ UNCHANGED <<host, other_vars, exit_code, console, main_vars, target,
                 run_id, pr_number, current_platform, pr, selected_run,
                 artifacts, target_artifact, calls, listed, metadata,
                 temp_files, dir_before, file_list, matched, lock_vars>>

\* Every matched entry is extracted: os.unlink(temp_zip_path), return.
FinishExtract ==
  /\ pc = "extract"
  /\ ext_i = Len(matched)
  /\ temp_files' = temp_files - 1
  /\ pc' = "extracted"
  /\ UNCHANGED <<host, other_vars, exit_code, console, main_vars, call_vars,
                 calls, error, output_dir, metadata, extract_vars, lock_vars>>

\* The metadata entry download_github_artifact builds.
MetadataEntry(artifact, run, prn) ==
  [artifact |-> artifact,
   run_id |-> run.id,
   source |-> IF prn # NoInt THEN "pr" ELSE "branch",
   pr_number |-> prn]

\* write_metadata: existing[repo] = metadata, every other key kept.
write_metadata(existing, repo, entry) ==
  [r \in DOMAIN existing \cup {repo} |-> IF r = repo THEN entry ELSE existing[r]]

\* Testsuite revision: the metadata entry is written and the call returns.
WriteMetadata ==
  /\ pc = "extracted"
  /\ script = Testsuite
  /\ metadata' = write_metadata(metadata, target[1].repo,
                   MetadataEntry(target_artifact, selected_run[1], pr_number))
  /\ pc' = "target"
  /\ CallReset
  /\ UNCHANGED <<host, other_vars, exit_code, console, main_vars, calls, error,
                 output_dir, temp_files, lock_vars>>

\* Scripts revision: the call returns, main() prints success and exits 0.
ReturnScripts ==
  /\ pc = "extracted"
  /\ script = Scripts
  /\ console' = console \cup {"Download completed successfully"}
  /\ exit_code' = <<SysExit(<<0>>)>>
  /\ pc' = "exit"
  /\ CallReset
  /\ UNCHANGED <<host, other_vars, main_vars, calls, error, disk_vars,
                 lock_vars>>

\* An `except Exception` that exits with status 1 in both revisions.
HandleError_exits ==
  /\ pc = "raised"
  /\ console' = console \cup {"Download failed"}
  /\ error' = NoError
  /\ CallReset
  /\ exit_code' = <<1>>
  /\ pc' = "exit"
  /\ calls' = {}
  /\ UNCHANGED <<host, other_vars, github_token, targets, args_run_id,
                 target_branch, overall_success, disk_vars, lock_vars>>

\* main()'s `except Exception`: the testsuite revision notes the failure and
\* goes on with the next target, the scripts revision exits 1.
HandleError ==
  /\ pc = "raised"
  /\ console' = console \cup {"Download failed"}
  /\ error' = NoError
  /\ CallReset
  /\ IF script = Testsuite
     THEN /\ overall_success' = FALSE
          /\ pc' = "target"
          /\ UNCHANGED exit_code
     ELSE /\ exit_code' = <<SysExit(<<1>>)>>
          /\ pc' = "exit"
          /\ UNCHANGED overall_success
  /\ calls' = {}
  /\ UNCHANGED <<host, other_vars, github_token, targets, args_run_id,
                 target_branch, disk_vars, lock_vars>>

\* Testsuite revision: the loop is over; exit 1 unless every target succeeded.
MainEnd ==
  /\ pc = "target"
  /\ targets = <<>>
  /\ IF overall_success
     THEN /\ console' = console \cup {"Download completed successfully"}
          /\ exit_code' = <<SysExit(<<0>>)>>
     ELSE /\ exit_code' = <<SysExit(<<1>>)>>
          /\ UNCHANGED console
  /\ pc' = "exit"
  /\ UNCHANGED <<host, other_vars, main_vars, call_vars, calls, error,
                 disk_vars, extract_vars, lock_vars>>

\* The script is started in a checkout that has no artifacts directory yet.
Init ==
  /\ script \in {Testsuite, Scripts}
  /\ \E h \in Hosts : system = h[1] /\ machine = h[2] /\ sys_platform = h[3]
  /\ pc = "start"
  /\ DownloadIdle
  /\ OthersIdle
  /\ LockIdle

Next ==
  \/ MainStart
  \/ BeginTarget
  \/ SelectByRunId
  \/ SelectByListing
  \/ ScanRun
  \/ AfterLocate
  \/ Download
  \/ FindExecutables
  \/ ExtractEntry
  \/ FinishExtract
  \/ WriteMetadata
  \/ ReturnScripts
  \/ HandleError
  \/ MainEnd

Spec == Init /\ [][Next]_vars

(***************************************************************************)
(* get_current_platform over the hosts Python runs on                      *)
(***************************************************************************)

\* Values of platform.system() and platform.machine().
Systems ==
  {"Linux", "linux", "Darwin", "darwin", "Windows", "windows", "FreeBSD",
   "freebsd"}
Machines ==
  {"x86_64", "AMD64", "amd64", "aarch64", "arm64", "ARM64", "ppc64le", "i686"}

\* A script is about to ask for the platform tag of its host.
InitPlatform ==
  /\ script \in {Testsuite, Scripts}
  /\ system \in Systems
  /\ machine \in Machines
  /\ sys_platform = "linux"
  /\ pc = "platform"
  /\ DownloadIdle
  /\ OthersIdle
  /\ LockIdle

\* current_platform = get_current_platform()
GetPlatform ==
  /\ pc = "platform"
  /\ current_platform' = get_current_platform(system, machine)
  /\ pc' = "platform_done"
  /\ UNCHANGED <<host, other_vars, exit_code, console, main_vars, target, run_id,
                 pr_number, pr, selected_run, artifacts, target_artifact,
                 listed, calls, error, disk_vars, extract_vars, lock_vars>>

NextPlatform == GetPlatform

SpecPlatform == InitPlatform /\ [][NextPlatform]_vars

(***************************************************************************)
(* update-lockfiles.py                                                     *)
(***************************************************************************)

\* The files a base directory may hold, relative to it. Every pixi.lock is
\* a regular file.
LockTreeFiles ==
  {"pixi.lock", "a/pixi.lock", "a/b/pixi.lock", "c/pixi.toml",
   "c/my-pixi.lock"}

\* What base_path may be.
BasePaths == {"missing", "file", "dir"}

\* lockfile.parent: the components of the directory, relative to base_path.
Parent(file) == SubSeq(PathOf(file), 1, Len(PathOf(file)) - 1)

\* base_path.glob("pixi.lock"): the entry of base_path itself only.
rglob_not_recursive(tree, name) == {f \in tree : PathOf(f) = <<name>>}

\* base_path.rglob("pixi.lock"): every entry below base_path with that name.
rglob(tree, name) == {f \in tree : PathName(f) = name}

\* The orders a set of paths can be listed in.
Orderings(S) ==
  {s \in [1..Cardinality(S) -> S] : \A i, j \in 1..Cardinality(S) :
     s[i] = s[j] => i = j}

\* The loop going on to the next directory whatever `pixi lock` returned.
AfterLock_continue(returncode) == "loop"

\* pixi_lock's `if returncode == 0 ... else: raise PixiLockError` and the
\* loop's `except PixiLockError: sys.exit(1)`: where control goes next.
AfterLock(returncode) == IF returncode = 0 THEN "loop" ELSE "exit"

\* update-lockfiles.py is started on some base path.
InitLock ==
  /\ script = Scripts
  /\ system = "Linux" /\ machine = "x86_64" /\ sys_platform = "linux"
  /\ pc = "idle"
  /\ DownloadIdle
  /\ OthersIdle
  /\ base_path \in BasePaths
  /\ lock_tree \in (IF base_path = "dir" THEN SUBSET LockTreeFiles ELSE {{}})
  /\ lockfiles = <<>>
  /\ lock_i = 0
  /\ invoked = <<>>
  /\ lock_pc = "start"
  /\ lock_exit = NoInt
  /\ lock_console = {}

\* find_and_process_lockfiles up to its loop: the checks on base_path and
\* the rglob listing, in whatever order the file system yields it.
FindLockfiles ==
  /\ lock_pc = "start"
  /\ IF base_path = "missing"
     THEN /\ lock_console' = lock_console \cup {"does not exist"}
          /\ lock_exit' = <<SysExit(<<1>>)>>
          /\ lock_pc' = "exit"
          /\ UNCHANGED lockfiles
     ELSE IF base_path # "dir"
     THEN /\ lock_console' = lock_console \cup {"is not a directory"}
          /\ lock_exit' = <<SysExit(<<1>>)>>
          /\ lock_pc' = "exit"
          /\ UNCHANGED lockfiles
     ELSE /\ \E order \in Orderings(rglob(lock_tree, "pixi.lock")) :
               lockfiles' = order
          /\ lock_console' =
               IF rglob(lock_tree, "pixi.lock") = {}
               THEN lock_console \cup {"No pixi.lock files found"}
               ELSE lock_console
          /\ lock_pc' = "loop"
          /\ UNCHANGED lock_exit
  /\ UNCHANGED <<host, other_vars, download_vars, base_path, lock_tree, lock_i, invoked>>

\* One pass of the loop: pixi_lock(lockfile.parent). res: the return code
\* of `pixi lock`, or <<>> when it could not be started (pixi() raises, or
\* subprocess.run does): an exception main() does not catch.
LockDirectory ==
  /\ lock_pc = "loop"
  /\ lock_i < Len(lockfiles)
  /\ \E res \in {NoInt, <<0>>, <<1>>} :
       LET directory == Parent(lockfiles[lock_i + 1])
       IN  IF res = NoInt
           THEN /\ lock_console' = lock_console \cup {"Traceback"}
                /\ lock_exit' = <<1>>
                /\ lock_pc' = "exit"
                /\ UNCHANGED <<invoked, lock_i>>
           ELSE /\ invoked' = Append(invoked, [directory |-> directory,
                                               returncode |-> res[1]])
                /\ lock_i' = lock_i + 1
                /\ lock_pc' = AfterLock(res[1])
                /\ IF AfterLock(res[1]) = "exit"
                   THEN /\ lock_console' = lock_console \cup
                                             {"Failed to run pixi lock"}
                        /\ lock_exit' = <<SysExit(<<1>>)>>
                   ELSE UNCHANGED <<lock_console, lock_exit>>
  /\ UNCHANGED <<host, other_vars, download_vars, base_path, lock_tree, lockfiles>>

\* find_and_process_lockfiles returns: main() prints the success message
\* and the interpreter exits 0.
LockDone ==
  /\ lock_pc = "loop"
  /\ lock_i = Len(lockfiles)
  /\ lock_console' = lock_console \cup {"All lockfiles processed successfully!"}
  /\ lock_exit' = <<0>>
  /\ lock_pc' = "exit"
  /\ UNCHANGED <<host, other_vars, download_vars, base_path, lock_tree, lockfiles, lock_i,
                 invoked>>

NextLock ==
  \/ FindLockfiles
  \/ LockDirectory
  \/ LockDone

SpecLock == InitLock /\ [][NextLock]_vars

(***************************************************************************)
(* write_metadata on its own: the metadata file under successive and       *)
(* concurrent calls                                                        *)
(***************************************************************************)

\* Run ids the recorded entries carry.
MetaRuns == 2

\* The repositories a download records.
MetaRepos == {PixiRepo, BackendsRepo}

\* The entries download_github_artifact can hand to write_metadata.
MetaEntries ==
  {MetadataEntry("artifact", [id |-> n], prn) :
     n \in 1..MetaRuns, prn \in {NoInt, <<12>>}}

\* A file holding a JSON object.
JsonObject(value) == [kind |-> "object", value |-> value]

\* What download-metadata.json can hold before a call: nothing (absent),
\* bytes that are not UTF-8, text that is not JSON, JSON that is not an
\* object, or a JSON object with an entry for some of the repositories.
MetadataFiles ==
  {[kind |-> k, value |-> NoMetadata] :
     k \in {"absent", "undecodable", "invalid", "array"}}
  \cup {JsonObject(f) : f \in UNION {[D -> MetaEntries] : D \in SUBSET MetaRepos}}

\* write_metadata up to `existing = json.loads(read_text(encoding="utf-8"))`:
\* an absent file and text that is not JSON leave `existing` the empty dict,
\* bytes that are not UTF-8 raise out of read_text, any JSON value is taken
\* as it is.
LoadExisting(file) ==
  CASE file.kind = "undecodable" ->
         [raises |-> "UnicodeDecodeError", kind |-> "", value |-> NoMetadata]
    [] file.kind \in {"absent", "invalid"} ->
         [raises |-> "", kind |-> "object", value |-> NoMetadata]
    [] OTHER ->
         [raises |-> "", kind |-> file.kind, value |-> file.value]

\* A call of write_metadata: where it is and its locals.
WriterAt(at, repo, entry, existing, raised) ==
  [at |-> at, repo |-> repo, entry |-> entry, existing |-> existing,
   raised |-> raised]

\* write_metadata(output_dir, repo, metadata) is entered by process p.
MetaCall(p) ==
  /\ writers[p].at = "idle"
  /\ \E repo \in MetaRepos, entry \in MetaEntries :
       writers' = [writers EXCEPT ![p] =
                     WriterAt("entered", repo, entry, NoMetadata, "")]
  /\ UNCHANGED <<beside_meta, metadata_file>>

\* Lines 247-254: the file is read and parsed.
MetaLoad(p) ==
  /\ writers[p].at = "entered"
  /\ LET loaded == LoadExisting(metadata_file)
     IN  writers' = [writers EXCEPT ![p] =
           IF loaded.raises # ""
           THEN WriterAt("raised", @.repo, @.entry, NoMetadata, loaded.raises)
           ELSE IF loaded.kind # "object"
           THEN WriterAt("loaded", @.repo, @.entry, NoMetadata, "TypeError")
           ELSE WriterAt("loaded", @.repo, @.entry, loaded.value, "")]
  /\ UNCHANGED <<beside_meta, metadata_file>>

\* Lines 255-256: `existing[repo] = metadata`, which raises TypeError on a
\* list, string, number or null, and the write of the whole file.
MetaStore(p) ==
  /\ writers[p].at = "loaded"
  /\ IF writers[p].raised # ""
     THEN /\ writers' = [writers EXCEPT ![p].at = "raised"]
          /\ UNCHANGED metadata_file
     ELSE /\ metadata_file' = JsonObject(write_metadata(writers[p].existing,
                                           writers[p].repo, writers[p].entry))
          /\ writers' = [writers EXCEPT ![p].at = "returned"]
  /\ UNCHANGED beside_meta

\* The invocation is over; the same shell starts the next one.
MetaNext(p) ==
  /\ writers[p].at \in {"returned", "raised"}
  /\ writers' = [writers EXCEPT ![p] =
                   WriterAt("idle", None, <<>>, NoMetadata, "")]
  /\ UNCHANGED <<beside_meta, metadata_file>>

\* One shell running download after download over any earlier file.
InitMetadata ==
  /\ Only_meta
  /\ metadata_file \in MetadataFiles
  /\ writers = <<WriterAt("idle", None, <<>>, NoMetadata, "")>>

NextMetadata ==
  \/ MetaCall(1)
  \/ MetaLoad(1)
  \/ MetaStore(1)
  \/ MetaNext(1)

SpecMetadata == InitMetadata /\ [][NextMetadata]_vars

\* Two invocations of download-artifacts at once in one checkout, each at
\* its write_metadata; neither takes a lock on the file, so their reads and
\* writes interleave freely.
InitConcurrent ==
  /\ Only_meta
  /\ metadata_file \in {f \in MetadataFiles : f.kind \in {"absent", "object"}}
  /\ writers = <<WriterAt("idle", None, <<>>, NoMetadata, ""),
                 WriterAt("idle", None, <<>>, NoMetadata, "")>>

NextConcurrent ==
  \E p \in {1, 2} :
    \/ MetaCall(p)
    \/ MetaLoad(p)
    \/ MetaStore(p)

SpecConcurrent == InitConcurrent /\ [][NextConcurrent]_vars

(***************************************************************************)
(* conftest.py: the validation of the cached artifacts at session start    *)
(***************************************************************************)

\* str.strip() for the blank.
RECURSIVE LStripCs(_)
LStripCs(cs) ==
  IF cs # <<>> /\ Head(cs) = " " THEN LStripCs(Tail(cs)) ELSE cs

RECURSIVE RStripCs(_)
RStripCs(cs) ==
  IF cs # <<>> /\ cs[Len(cs)] = " "
  THEN RStripCs(SubSeq(cs, 1, Len(cs) - 1))
  ELSE cs

Strip(s) == Str(RStripCs(LStripCs(Chars(s))))

\* str() of a non-negative int.
RECURSIVE DigitsOf(_)
DigitsOf(n) ==
  LET d == <<"0", "1", "2", "3", "4", "5", "6", "7", "8", "9">>[(n % 10) + 1]
  IN  IF n < 10 THEN <<d>> ELSE DigitsOf(n \div 10) \o <<d>>

\* The variable _validate_artifact_sources reads for a repository.
EnvVarOf(repo) ==
  IF repo = PixiRepo THEN "PIXI_PR_NUMBER" ELSE "BUILD_BACKENDS_PR_NUMBER"

\* os.getenv(env_var, "").strip(); None stands for an unset variable.
EnvValue(env, env_var) ==
  IF env[env_var] = None THEN "" ELSE Strip(env[env_var])

\* str(entry.get("pr_number", "")).strip()
RecordedPrNumber(entry) ==
  IF entry.pr_number = NoInt THEN "" ELSE Strip(Str(DigitsOf(entry.pr_number[1])))

\* A loop body that compares the variable as it is, blanks included.
CheckEntry_unstripped(md, env, repo) ==
  IF repo \notin DOMAIN md THEN ""
  ELSE LET entry == md[repo]
           env_value == IF env[EnvVarOf(repo)] = None THEN "" ELSE env[EnvVarOf(repo)]
           recorded == RecordedPrNumber(entry)
       IN  IF entry.source = "pr"
           THEN IF recorded = "" THEN "is missing a pull request number"
                ELSE IF env_value = "" THEN "is not set"
                ELSE IF env_value # recorded THEN "originate from another PR"
                ELSE ""
           ELSE IF entry.source = "branch"
           THEN IF env_value # "" THEN "originate from branch" ELSE ""
           ELSE ""

\* The body of the loop of _validate_artifact_sources for one repository:
\* the RuntimeError it raises, "" when it raises none.
CheckEntry(md, env, repo) ==
  IF repo \notin DOMAIN md THEN ""
  ELSE LET entry == md[repo]
           env_value == EnvValue(env, EnvVarOf(repo))
           recorded == RecordedPrNumber(entry)
       IN  IF entry.source = "pr"
           THEN IF recorded = "" THEN "is missing a pull request number"
                ELSE IF env_value = "" THEN "is not set"
                ELSE IF env_value # recorded THEN "originate from another PR"
                ELSE ""
           ELSE IF entry.source = "branch"
           THEN IF env_value # "" THEN "originate from branch" ELSE ""
           ELSE ""

\* A validation that lets entries downloaded from a branch pass.
validate_artifact_sources_pr_only(md, env) ==
  LET first == IF PixiRepo \in DOMAIN md /\ md[PixiRepo].source = "pr"
               THEN CheckEntry(md, env, PixiRepo) ELSE ""
  IN  IF first # "" THEN first
      ELSE IF BackendsRepo \in DOMAIN md /\ md[BackendsRepo].source = "pr"
      THEN CheckEntry(md, env, BackendsRepo) ELSE ""

\* _validate_artifact_sources over the loaded metadata: the checks run in
\* the order pixi, pixi-build-backends and the first error is the one raised.
validate_artifact_sources(md, env) ==
  LET first == CheckEntry(md, env, PixiRepo)
  IN  IF first # "" THEN first ELSE CheckEntry(md, env, BackendsRepo)

\* _load_artifact_metadata: the error it raises, "" when it returns.
LoadArtifactMetadata(file) ==
  CASE file.kind = "undecodable" -> "UnicodeDecodeError"
    [] file.kind = "invalid" -> "is not valid JSON"
    [] file.kind = "array" -> "must contain a JSON object"
    [] OTHER -> ""

\* Commits a workflow run can have been made for.
Commits == {"sha1", "sha2"}

\* The entries a metadata file can hold, as far as the validation and the
\* provenance go: source, pr_number (absent for a branch) and head_sha.
RecordedEntries ==
  {[source |-> s, pr_number |-> n, head_sha |-> c] :
     s \in {"pr", "branch", "tag"}, n \in {NoInt, <<0>>, <<12>>}, c \in Commits}

\* The metadata files a session can find.
SessionFiles ==
  {[kind |-> k, value |-> NoMetadata] :
     k \in {"absent", "undecodable", "invalid", "array"}}
  \cup {JsonObject(f) : f \in UNION {[D -> RecordedEntries] : D \in SUBSET MetaRepos}}

\* Values of a *_PR_NUMBER variable once the .env files are loaded.
PrNumberValues == {None, "", " ", "12", " 12 ", "13", "012", "abc"}

\* load_dotenv, the autouse session fixture: the metadata is loaded and
\* validated; an error ends the session before any test runs.
LoadDotenv ==
  /\ session = "collecting"
  /\ LET load_error == LoadArtifactMetadata(metadata_file)
     IN  session' =
           IF load_error # "" THEN load_error
           ELSE LET raised == validate_artifact_sources(metadata_file.value, environ)
                IN  IF raised # "" THEN raised ELSE "running"
  /\ UNCHANGED <<beside_session, environ, expected_head>>

InitSession ==
  /\ Only_session
  /\ writers = <<>>
  /\ metadata_file \in SessionFiles
  /\ environ \in [{"PIXI_PR_NUMBER", "BUILD_BACKENDS_PR_NUMBER"} -> PrNumberValues]
  /\ expected_head \in Commits
  /\ session = "collecting"

NextSession == LoadDotenv

SpecSession == InitSession /\ [][NextSession]_vars

(***************************************************************************)
(* build-repos.py                                                          *)
(***************************************************************************)

\* The two variables main() reads, in the order it processes them.
RepoNames == <<"PIXI_REPO", "BUILD_BACKENDS_REPO">>

\* What a variable can point at and how the commands answer there: value
\* is None (unset), "" or a path; is_dir and worktree say what is at the
\* path; branch is the stripped output of `git branch --show-current`,
\* None when git returned non-zero; pull_ok and build_ok say whether
\* `git pull` and `pixi run build-release` return 0.
RepoState(value, is_dir, worktree, branch, pull_ok, build_ok) ==
  [value |-> value, is_dir |-> is_dir, worktree |-> worktree,
   branch |-> branch, pull_ok |-> pull_ok, build_ok |-> build_ok]

RepoStates ==
  {RepoState(v, FALSE, FALSE, None, TRUE, TRUE) : v \in {None, "", "path"}}
  \cup {RepoState("path", TRUE, FALSE, None, TRUE, TRUE)}
  \cup {RepoState("path", TRUE, TRUE, b, p, k) :
          b \in {None, "", "main", "master", "feature"}, p \in BOOLEAN, k \in BOOLEAN}

\* A command run in a repository.
Command(name, cmd) == [repo |-> name, cmd |-> cmd]

\* process_repository: the commands it runs, in order, and the exception it
\* raises ("" for none). A branch of None or "" is "could not determine".
process_repository(r, name) ==
  IF ~r.is_dir
  THEN [commands |-> <<>>, raised |-> "GitRepositoryError"]
  ELSE IF ~r.worktree
  THEN [commands |-> <<Command(name, "git rev-parse")>>, raised |-> "GitRepositoryError"]
  ELSE LET checked == <<Command(name, "git rev-parse"), Command(name, "git branch")>>
           pulls == r.branch \notin {None, ""} /\ r.branch = "main"
           pulled == IF pulls THEN checked \o <<Command(name, "git pull")>> ELSE checked
       IN  IF pulls /\ ~r.pull_ok
           THEN [commands |-> pulled, raised |-> "GitPullError"]
           ELSE [commands |-> pulled \o <<Command(name, "pixi run build-release")>>,
                 raised |-> IF r.build_ok THEN "" ELSE "PixiBuildError"]

\* main() up to the first try: both variables must be set and non-empty.
BuildStart ==
  /\ build_pc = "start"
  /\ IF \E i \in 1..2 : repos[RepoNames[i]].value \in {None, ""}
     THEN build_exit' = <<1>> /\ build_pc' = "exit"
     ELSE build_exit' = NoInt /\ build_pc' = RepoNames[1]
  /\ UNCHANGED <<beside_build, repos, commands, success>>

\* A main() whose first failure ends the processing.
ProcessRepository_stops ==
  /\ build_pc \in {RepoNames[1], RepoNames[2]}
  /\ LET done == process_repository(repos[build_pc], build_pc)
     IN  /\ commands' = commands \o done.commands
         /\ success' = (success /\ done.raised = "")
         /\ build_pc' = IF build_pc = RepoNames[1] /\ done.raised = ""
                        THEN RepoNames[2] ELSE "done"
  /\ UNCHANGED <<beside_build, repos, build_exit>>

\* One of the two try blocks of main().
ProcessRepository ==
  /\ build_pc \in {RepoNames[1], RepoNames[2]}
  /\ LET done == process_repository(repos[build_pc], build_pc)
     IN  /\ commands' = commands \o done.commands
         /\ success' = (success /\ done.raised = "")
  /\ build_pc' = IF build_pc = RepoNames[1] THEN RepoNames[2] ELSE "done"
  /\ UNCHANGED <<beside_build, repos, build_exit>>

\* main() after the second try.
BuildEnd ==
  /\ build_pc = "done"
  /\ build_exit' = IF success THEN <<0>> ELSE <<1>>
  /\ build_pc' = "exit"
  /\ UNCHANGED <<beside_build, repos, commands, success>>

InitBuild ==
  /\ Only_build
  /\ repos \in [{RepoNames[1], RepoNames[2]} -> RepoStates]
  /\ build_pc = "start"
  /\ commands = <<>>
  /\ success = TRUE
  /\ build_exit = NoInt

NextBuild ==
  \/ BuildStart
  \/ ProcessRepository
  \/ BuildEnd

SpecBuild == InitBuild /\ [][NextBuild]_vars

(***************************************************************************)
(* common.py: verify_cli_command                                           *)
(***************************************************************************)

\* A `str | list[str] | None` argument: its Python type and, as items, the
\* string itself or the elements of the list.
NoneArg == [type |-> "None", items |-> <<>>]
StrArg(s) == [type |-> "str", items |-> <<s>>]
ListArg(items) == [type |-> "list", items |-> items]

\* bool(arg): None, "" and [] are false.
ArgGiven(arg) ==
  CASE arg.type = "None" -> FALSE
    [] arg.type = "str" -> arg.items[1] # ""
    [] OTHER -> arg.items # <<>>

\* The first substring of `contains` that is not in the stream, as the
\* loop finds it; <<>> when the loop ends without a failed assert.
FirstMissing(arg, stream) ==
  LET bad == {i \in 1..Len(arg.items) : ~ContainsCs(Chars(stream), Chars(arg.items[i]))}
  IN  IF ArgGiven(arg) /\ bad # {} THEN <<arg.items[MinOf(bad)]>> ELSE <<>>

\* The first substring of `excludes` that is in the stream.
FirstFound(arg, stream) ==
  LET bad == {i \in 1..Len(arg.items) : ContainsCs(Chars(stream), Chars(arg.items[i]))}
  IN  IF ArgGiven(arg) /\ bad # {} THEN <<arg.items[MinOf(bad)]>> ELSE <<>>

\* What a call comes to: the Output, or the AssertionError with the
\* assert that failed.
Returned == [kind |-> "Output", failed |-> ""]
Failed(at) == [kind |-> "AssertionError", failed |-> at]

\* A verify_cli_command that looks at the return code last.
verify_cli_command_code_last(c) ==
  IF FirstMissing(c.stdout_contains, c.stdout) # <<>> THEN Failed("not found in stdout")
  ELSE IF FirstFound(c.stdout_excludes, c.stdout) # <<>> THEN Failed("unexpectedly found in stdout")
  ELSE IF FirstMissing(c.stderr_contains, c.stderr) # <<>> THEN Failed("not found in stderr")
  ELSE IF FirstFound(c.stderr_excludes, c.stderr) # <<>> THEN Failed("unexpectedly found in stderr")
  ELSE IF c.returncode # c.expected_exit_code THEN Failed("Return code")
  ELSE Returned

\* verify_cli_command from the assert on the return code on; stdout and
\* stderr are the streams as decoded (and, with strip_ansi, sanitised).
verify_cli_command(c) ==
  IF c.returncode # c.expected_exit_code THEN Failed("Return code")
  ELSE IF FirstMissing(c.stdout_contains, c.stdout) # <<>> THEN Failed("not found in stdout")
  ELSE IF FirstFound(c.stdout_excludes, c.stdout) # <<>> THEN Failed("unexpectedly found in stdout")
  ELSE IF FirstMissing(c.stderr_contains, c.stderr) # <<>> THEN Failed("not found in stderr")
  ELSE IF FirstFound(c.stderr_excludes, c.stderr) # <<>> THEN Failed("unexpectedly found in stderr")
  ELSE Returned

\* The substring arguments a test passes.
SubstringArgs ==
  {NoneArg, StrArg(""), StrArg("pixi"), ListArg(<<>>), ListArg(<<"">>),
   ListArg(<<"pixi", "abc">>)}

\* The calls: what the process returned and printed, and the checks asked for.
CliCalls ==
  [returncode : {0, 1}, expected_exit_code : {0, 1},
   stdout : {"", "pixi"}, stderr : {"", "abc"},
   stdout_contains : SubstringArgs, stdout_excludes : SubstringArgs,
   stderr_contains : SubstringArgs, stderr_excludes : SubstringArgs]

\* A test calls verify_cli_command.
VerifyCliCommand ==
  /\ cli_result = <<>>
  /\ cli_result' = <<verify_cli_command(cli_call)>>
  /\ UNCHANGED <<beside_cli, cli_call>>

InitCli ==
  /\ Only_cli
  /\ cli_call \in CliCalls
  /\ cli_result = <<>>

NextCli == VerifyCliCommand

SpecCli == InitCli /\ [][NextCli]_vars

(***************************************************************************)
(* common.py: get_local_backend_channel and copy_manifest                  *)
(***************************************************************************)

\* Channels a backend table may list at most.
MaxChannels == 3

\* Path(...).as_uri() of the two directories get_local_backend_channel tries.
RepoChannelUri == "file:///repo/artifacts-channel"
ArtifactsChannelUri == "file:///testsuite/artifacts/pixi-build-backends"

\* get_local_backend_channel: the channel below BUILD_BACKENDS_REPO when it
\* holds a repodata.json, else the one below artifacts/, else an Exception
\* (None here). `found` is the set of the directories that hold one.
get_local_backend_channel(found) ==
  IF "BUILD_BACKENDS_REPO" \in found THEN RepoChannelUri
  ELSE IF "artifacts" \in found THEN ArtifactsChannelUri
  ELSE None

\* The for loop of copy_manifest: backend channels replaced, others kept.
RECURSIVE ReplaceBackendChannels(_, _)
ReplaceBackendChannels(channels, local_uri) ==
  IF channels = <<>> THEN <<>>
  ELSE <<IF ContainsCs(Chars(Head(channels)), Chars("pixi-build-backends"))
         THEN local_uri ELSE Head(channels)>>
       \o ReplaceBackendChannels(Tail(channels), local_uri)

\* new_channels without the final append of the local channel.
new_channels_no_append(channels, local_uri) ==
  IF channels = <<>> \/ channels[1] = <<>>
  THEN <<local_uri, "https://prefix.dev/conda-forge">>
  ELSE ReplaceBackendChannels(channels[1], local_uri)

\* new_channels as copy_manifest computes it; channels is <<>> for an
\* absent key and <<list>> for a list.
new_channels(channels, local_uri) ==
  IF channels = <<>> \/ channels[1] = <<>>
  THEN <<local_uri, "https://prefix.dev/conda-forge">>
  ELSE LET replaced == ReplaceBackendChannels(channels[1], local_uri)
       IN  IF \E i \in 1..Len(replaced) : replaced[i] = local_uri
           THEN replaced ELSE Append(replaced, local_uri)

\* A manifest file: its name, whether it has a [package.build.backend]
\* table, and that table's channels.
Manifest(name, backend, channels) ==
  [name |-> name, backend |-> backend, channels |-> channels]

\* The channel URLs manifests use.
ChannelUrls ==
  {"https://prefix.dev/pixi-build-backends", "https://prefix.dev/conda-forge",
   "https://example.org/channel", RepoChannelUri}

\* The files copy_manifest is called for.
Manifests ==
  {Manifest(n, FALSE, <<>>) : n \in {"pixi.toml", "recipe.yaml", "pyproject.toml"}}
  \cup {Manifest("pyproject.toml", TRUE, <<<<"https://prefix.dev/pixi-build-backends">>>>)}
  \cup {Manifest("pixi.toml", TRUE, <<>>)}
  \cup {Manifest("pixi.toml", TRUE, <<l>>) :
          l \in UNION {[1..n -> ChannelUrls] : n \in 0..MaxChannels}}

\* copy_manifest: the file is copied, then the local channel is looked up,
\* then the backend channels of a pixi.toml are rewritten.
CopyManifest ==
  /\ manifest_dst = <<>>
  /\ LET local_uri == get_local_backend_channel(local_channels)
         rewritten == [manifest_src EXCEPT
                         !.channels = <<new_channels(@, local_uri)>>]
     IN  IF local_uri = None
         THEN manifest_dst' = <<manifest_src>> /\ manifest_raised' = TRUE
         ELSE /\ manifest_raised' = FALSE
              /\ manifest_dst' =
                   IF manifest_src.name = "pixi.toml" /\ manifest_src.backend
                   THEN <<rewritten>> ELSE <<manifest_src>>
  /\ UNCHANGED <<beside_manifest, manifest_src, local_channels>>

InitManifest ==
  /\ Only_manifest
  /\ manifest_src \in Manifests
  /\ local_channels \in SUBSET {"BUILD_BACKENDS_REPO", "artifacts"}
  /\ manifest_dst = <<>>
  /\ manifest_raised = FALSE

NextManifest == CopyManifest

SpecManifest == InitManifest /\ [][NextManifest]_vars

(***************************************************************************)
(* pixi(): the resolver of the pixi executable (update-lockfiles.py and    *)
(* the pixi fixture of both conftest.py)                                   *)
(***************************************************************************)

\* Calls of pixi() in one process.
MaxCalls == 2

\* exec_extension
exec_extension(sysname, exe_name) ==
  IF sysname = "Windows" THEN Str(Chars(exe_name) \o Chars(".exe")) ELSE exe_name

\* directory / name
Join(directory, name) == Str(Chars(directory) \o Chars("/") \o Chars(name))

\* The paths the resolver can look at: the two candidates, a directory
\* PIXI_BIN_DIR may name, and the executables in them.
ResolverDirs == {"artifacts", "artifacts/pixi", "custom"}
ResolverPaths ==
  ResolverDirs \cup {Join(d, n) : d \in ResolverDirs, n \in {"pixi", "pixi.exe"}}

\* Path.is_dir() and Path.is_file(); a path outside the bin_tree does not exist.
IsDir(t, path) == path \in DOMAIN t /\ t[path] = "dir"
IsFile(t, path) == path \in DOMAIN t /\ t[path] = "file"

\* Something is at a path only if its parent is a directory.
ValidTree(t) ==
  /\ t["artifacts"] # "file"
  /\ \A d \in ResolverDirs, n \in {"pixi", "pixi.exe"} :
       t[Join(d, n)] # "none" => t[d] = "dir"
  /\ t["artifacts/pixi"] # "none" => t["artifacts"] = "dir"

Trees == {t \in [ResolverPaths -> {"none", "dir", "file"}] : ValidTree(t)}

\* What a call comes to: the path returned or the exception raised.
Resolved(path) == [raised |-> "", path |-> path]
Unresolved(exception) == [raised |-> exception, path |-> None]

\* A search that keeps the last candidate holding the executable.
LastCandidate(t, sysname) ==
  LET candidates == <<"artifacts", "artifacts/pixi">>
      good == {i \in 1..2 : /\ IsDir(t, candidates[i])
                            /\ IsFile(t, Join(candidates[i], exec_extension(sysname, "pixi")))}
  IN  IF good = {} THEN None ELSE candidates[MaxOf(good)]

\* The first candidate that is a directory holding the executable, None
\* when there is none.
FirstCandidate(t, sysname) ==
  LET candidates == <<"artifacts", "artifacts/pixi">>
      good == {i \in 1..2 : /\ IsDir(t, candidates[i])
                            /\ IsFile(t, Join(candidates[i], exec_extension(sysname, "pixi")))}
  IN  IF good = {} THEN None ELSE candidates[MinOf(good)]

\* pixi(): the result and the value PIXI_BIN_DIR has afterwards.
pixi(env, t, sysname) ==
  LET given == env # None /\ env # ""
      found == IF given THEN None ELSE FirstCandidate(t, sysname)
      pixi_bin_path == IF given THEN env ELSE found
      env_after == IF ~given /\ found # None THEN found ELSE env
      pixi_executable == Join(pixi_bin_path, exec_extension(sysname, "pixi"))
  IN  [env |-> env_after,
       result |->
         IF env_after = None /\ pixi_bin_path = None
         THEN Unresolved("ValueError")
         ELSE IF pixi_bin_path = None \/ ~IsDir(t, pixi_bin_path)
         THEN Unresolved("ValueError")
         ELSE IF ~IsFile(t, pixi_executable)
         THEN Unresolved("FileNotFoundError")
         ELSE Resolved(pixi_executable)]

\* A call of pixi().
PixiCall ==
  /\ Len(resolved) < MaxCalls
  /\ LET call == pixi(pixi_bin_dir, bin_tree, system)
     IN  /\ pixi_bin_dir' = call.env
         /\ resolved' = Append(resolved, call.result)
  /\ UNCHANGED <<beside_resolver, bin_tree>>

\* Between two calls something is put at a path or removed from it (a
\* download, a build, a cleanup).
TreeChanges ==
  /\ Len(resolved) = 1
  /\ \E p \in ResolverPaths, kind \in {"none", "dir", "file"} :
       LET t == [bin_tree EXCEPT ![p] = kind]
       IN  /\ t # bin_tree
           /\ ValidTree(t)
           /\ bin_tree' = t
  /\ UNCHANGED <<beside_resolver, pixi_bin_dir, resolved>>

InitResolver ==
  /\ script = Testsuite
  /\ system \in {"Linux", "Windows"}
  /\ machine = "x86_64"
  /\ sys_platform = IF system = "Windows" THEN "win32" ELSE "linux"
  /\ pc = "idle"
  /\ DownloadIdle
  /\ LockIdle
  /\ Rest_resolver
  /\ pixi_bin_dir \in {None, "", "custom", "artifacts/pixi", "missing"}
  /\ bin_tree \in Trees
  /\ resolved = <<>>

NextResolver ==
  \/ PixiCall
  \/ TreeChanges

SpecResolver == InitResolver /\ [][NextResolver]_vars

(***************************************************************************)
(* Tests run in parallel over tests/data/pixi_build/                       *)
(* minimal-backend-workspaces/pixi-build-cmake                             *)
(***************************************************************************)

\* The paths of the project directory, relative to it; ".pixi" is left
\* there by a pixi run inside the directory.
ProjectFiles == {"pixi.toml"}
DotPixi == {".pixi", ".pixi/envs"}

\* The tests: test_pixi_minimal_backend[pixi-build-cmake], a test calling
\* prepare_cpp_git_workspace, test_incremental_builds[pixi-build-cmake].
\* The first two remove .pixi and copy the directory as it is, the third
\* copies it without .pixi.
Removers == {1, 2}
Tests == {1, 2, 3}

\* A test: where it is, the entries its last scandir returned, the shared
\* paths it has read and those it has deleted, and whether its copy failed.
TestAt(at, seen, reads, deletes, failed) ==
  [at |-> at, seen |-> seen, reads |-> reads, deletes |-> deletes,
   failed |-> failed]

\* shutil.rmtree(project / ".pixi", ignore_errors=True): the directory is
\* listed if it is there.
RmtreeScan(t) ==
  /\ t \in Removers
  /\ running[t].at = "rmtree"
  /\ running' = [running EXCEPT ![t] =
       IF ".pixi" \in shared
       THEN TestAt("unlink", shared \cap {".pixi/envs"}, @.reads \cup {".pixi"},
                   @.deletes, @.failed)
       ELSE TestAt("copytree", {}, @.reads, @.deletes, @.failed)]
  /\ UNCHANGED <<beside_tests, shared>>

\* rmtree removes the entries it listed; one that is gone is an ignored error.
RmtreeUnlink(t) ==
  /\ running[t].at = "unlink"
  /\ shared' = shared \ running[t].seen
  /\ running' = [running EXCEPT ![t] =
       TestAt("rmdir", {}, @.reads, @.deletes \cup (@.seen \cap shared), @.failed)]
  /\ UNCHANGED beside_tests

\* rmtree removes the directory itself, if it is still there and empty.
RmtreeRmdir(t) ==
  /\ running[t].at = "rmdir"
  /\ LET removes == ".pixi" \in shared /\ ".pixi/envs" \notin shared
     IN  /\ shared' = IF removes THEN shared \ {".pixi"} ELSE shared
         /\ running' = [running EXCEPT ![t] =
              TestAt("copytree", {}, @.reads,
                     IF removes THEN @.deletes \cup {".pixi"} ELSE @.deletes,
                     @.failed)]
  /\ UNCHANGED beside_tests

\* shutil.copytree lists the project directory; copytree_with_local_backend
\* leaves .pixi out of what it goes on to copy.
CopytreeScan(t) ==
  /\ running[t].at = "copytree"
  /\ running' = [running EXCEPT ![t] =
       TestAt("copying",
              (shared \cap (ProjectFiles \cup {".pixi"})) \ (IF t \in Removers THEN {} ELSE {".pixi"}),
              @.reads \cup {"."}, @.deletes, @.failed)]
  /\ UNCHANGED <<beside_tests, shared>>

\* copytree copies the entries it listed, with what is below .pixi; an
\* entry that is gone makes it raise.
CopytreeCopy(t) ==
  /\ running[t].at = "copying"
  /\ LET wanted == running[t].seen \cup
                   (IF ".pixi" \in running[t].seen THEN shared \cap {".pixi/envs"} ELSE {})
     IN  running' = [running EXCEPT ![t] =
           TestAt("done", {}, @.reads \cup wanted, @.deletes,
                  ~(running[t].seen \subseteq shared))]
  /\ UNCHANGED <<beside_tests, shared>>

InitTests ==
  /\ Only_tests
  /\ shared \in {ProjectFiles \cup d : d \in {{}, {".pixi"}, DotPixi}}
  /\ running = [t \in Tests |->
                  TestAt(IF t \in Removers THEN "rmtree" ELSE "copytree", {}, {}, {}, FALSE)]

NextTests ==
  \E t \in Tests :
    \/ RmtreeScan(t)
    \/ RmtreeUnlink(t)
    \/ RmtreeRmdir(t)
    \/ CopytreeScan(t)
    \/ CopytreeCopy(t)

SpecTests == InitTests /\ [][NextTests]_vars
(***************************************************************************)
(* conftest.py: the build_backends session fixture, in both variants       *)
(***************************************************************************)

\* The backends each variant expects.
ExpectedBackends(variant) ==
  IF variant = "tests"
  THEN <<"pixi-build-cmake", "pixi-build-python", "pixi-build-rattler-build",
         "pixi-build-rust", "pixi-build-ros">>
  ELSE <<"pixi-build-cmake", "pixi-build-python", "pixi-build-rattler-build",
         "pixi-build-rust">>

\* The directories the fixture can look into: the two candidates and one
\* BUILD_BACKENDS_BIN_DIR may name.
BackendCandidates == <<"artifacts", "artifacts/pixi-build-backends">>
BackendDirs == {"artifacts", "artifacts/pixi-build-backends", "custom"}

\* The names an executable of a backend can have in them.
BackendFiles ==
  LET all == ExpectedBackends("tests")
  IN  {all[i] : i \in 1..Len(all)} \cup {exec_extension("Windows", all[i]) : i \in 1..Len(all)}

\* What a directory can hold: none of the executables, all of them with or
\* without .exe, all but one, or all with a directory in the place of one.
DirContents ==
  LET exe == [n \in BackendFiles |-> IF ContainsCs(Chars(n), Chars(".exe"))
                                     THEN "file" ELSE "none"]
      plain == [n \in BackendFiles |-> IF exe[n] = "file" THEN "none" ELSE "file"]
  IN  {[n \in BackendFiles |-> "none"], plain, exe,
       [plain EXCEPT !["pixi-build-cmake"] = "none"],
       [plain EXCEPT !["pixi-build-ros"] = "none"],
       [exe EXCEPT !["pixi-build-ros.exe"] = "none"],
       [plain EXCEPT !["pixi-build-rust"] = "dir"]}

\* The file trees the fixture can find: each directory is absent, a file or
\* a directory with some contents; artifacts/pixi-build-backends needs
\* artifacts to be a directory. A tree gives, for each directory, what it is
\* and what is at each name below it.
BackendTrees ==
  {l \in [BackendDirs -> [kind : {"none", "file", "dir"}, holds : DirContents]] :
     /\ \A d \in BackendDirs :
          l[d].kind # "dir" => l[d].holds = [n \in BackendFiles |-> "none"]
     /\ l["artifacts/pixi-build-backends"].kind # "none" => l["artifacts"].kind = "dir"}

\* Path(directory).is_dir()
BackendIsDir(t, directory) ==
  directory \in DOMAIN t /\ t[directory].kind = "dir"

\* (Path(directory) / name).is_file()
BackendIsFile(t, directory, name) ==
  /\ BackendIsDir(t, directory)
  /\ name \in BackendFiles
  /\ t[directory].holds[name] = "file"

\* A check that looks for the first backend only.
HoldsAll_first(t, sysname, directory, backends) ==
  BackendIsFile(t, directory, exec_extension(sysname, backends[1]))

\* all((candidate / exec_extension(backend)).is_file() for backend in backends)
HoldsAll(t, sysname, directory, backends) ==
  \A i \in 1..Len(backends) :
    BackendIsFile(t, directory, exec_extension(sysname, backends[i]))

\* The candidates loop: the first candidate that is a directory holding
\* every backend, None when there is none.
FirstBackendCandidate(t, sysname, backends) ==
  LET good == {i \in 1..2 : /\ BackendIsDir(t, BackendCandidates[i])
                            /\ HoldsAll(t, sysname, BackendCandidates[i], backends)}
  IN  IF good = {} THEN None ELSE BackendCandidates[MinOf(good)]

\* ",".join(parts)
RECURSIVE JoinComma(_)
JoinComma(parts) ==
  IF parts = <<>> THEN <<>>
  ELSE IF Len(parts) = 1 THEN Head(parts)
  ELSE Head(parts) \o Chars(",") \o JoinComma(Tail(parts))

\* ",".join(f"{backend}={backend_path}" for each backend), as the character
\* sequence of the value.
override_value(directory, sysname, backends) ==
  JoinComma([i \in 1..Len(backends) |->
        Chars(backends[i]) \o Chars("=") \o Chars(directory) \o Chars("/")
        \o Chars(exec_extension(sysname, backends[i]))])

\* The environment the fixture works on. PIXI_BUILD_BACKEND_OVERRIDE is <<>>
\* when unset and <<value>> when set, value a character sequence.
BackendEnv(bin_dir, override, channel) ==
  [BUILD_BACKENDS_BIN_DIR |-> bin_dir, PIXI_BUILD_BACKEND_OVERRIDE |-> override,
   PIXI_TESTSUITE_BACKEND_CHANNEL |-> channel]

\* What a run of the fixture comes to: the environment it leaves and the
\* exception it raises ("" when it returns).
FixtureResult(env, raised) == [env |-> env, raised |-> raised]

\* build_backends of tests/integration_python/conftest.py.
build_backends_tests(env, t, rd, sysname) ==
  LET backends == ExpectedBackends("tests")
      channel_dir == IF BackendIsDir(t, "artifacts/pixi-build-backends") /\ rd
                     THEN "artifacts/pixi-build-backends" ELSE None
      env1 == [env EXCEPT !.PIXI_TESTSUITE_BACKEND_CHANNEL =
                 IF channel_dir # None THEN ArtifactsChannelUri ELSE None]
      build_backends_dir == env.BUILD_BACKENDS_BIN_DIR
  IN  IF channel_dir # None /\ ~rd
      THEN FixtureResult(env1, "RuntimeError")
      ELSE IF build_backends_dir \notin {None, ""}
      THEN IF ~BackendIsDir(t, build_backends_dir)
           THEN FixtureResult(env1, "ValueError")
           ELSE IF ~HoldsAll(t, sysname, build_backends_dir, backends)
           THEN FixtureResult(env1, "ValueError")
           ELSE FixtureResult(
                  [env1 EXCEPT !.PIXI_BUILD_BACKEND_OVERRIDE =
                     <<override_value(build_backends_dir, sysname, backends)>>], "")
      ELSE LET found == FirstBackendCandidate(t, sysname, backends)
           IN  IF found # None
               THEN FixtureResult(
                      [env1 EXCEPT !.BUILD_BACKENDS_BIN_DIR = found,
                                   !.PIXI_BUILD_BACKEND_OVERRIDE =
                                      <<override_value(found, sysname, backends)>>], "")
               ELSE FixtureResult([env1 EXCEPT !.PIXI_BUILD_BACKEND_OVERRIDE = <<>>], "")

\* build_backends of testsuite/tests/integration_python/conftest.py.
build_backends_testsuite(env, t, sysname) ==
  LET backends == ExpectedBackends("testsuite")
      given == env.BUILD_BACKENDS_BIN_DIR \notin {None, ""}
      found == IF given THEN None ELSE FirstBackendCandidate(t, sysname, backends)
      build_backends_path == IF given THEN env.BUILD_BACKENDS_BIN_DIR ELSE found
      env1 == IF ~given /\ found # None
              THEN [env EXCEPT !.BUILD_BACKENDS_BIN_DIR = found] ELSE env
      missing == {i \in 1..Len(backends) :
                    ~BackendIsFile(t, build_backends_path,
                                   exec_extension(sysname, backends[i]))}
  IN  IF env1.BUILD_BACKENDS_BIN_DIR = None /\ build_backends_path = None
      THEN FixtureResult(env1, "ValueError")
      ELSE IF build_backends_path = None \/ ~BackendIsDir(t, build_backends_path)
      THEN FixtureResult(env1, "ValueError")
      ELSE IF missing # {}
      THEN FixtureResult(env1, "FileNotFoundError")
      ELSE FixtureResult(
             [env1 EXCEPT !.PIXI_BUILD_BACKEND_OVERRIDE =
                <<override_value(build_backends_path, sysname, backends)>>], "")

\* The session fixture runs, once.
BuildBackends ==
  /\ fixture_outcome = ""
  /\ LET done == IF fixture_variant = "tests"
                 THEN build_backends_tests(backend_env, backend_tree, repodata, system)
                 ELSE build_backends_testsuite(backend_env, backend_tree, system)
     IN  /\ backend_env' = done.env
         /\ fixture_outcome' = IF done.raised = "" THEN "returned" ELSE done.raised
  /\ UNCHANGED <<beside_backends, fixture_variant, backend_tree, repodata>>

InitBackends ==
  /\ script = Testsuite
  /\ system \in {"Linux", "Windows"}
  /\ machine = "x86_64"
  /\ sys_platform = IF system = "Windows" THEN "win32" ELSE "linux"
  /\ pc = "idle"
  /\ DownloadIdle
  /\ LockIdle
  /\ Rest_backends
  /\ fixture_variant \in {"tests", "testsuite"}
  /\ backend_env \in {BackendEnv(d, o, None) :
                        d \in {None, "", "custom", "missing"},
                        o \in {<<>>, <<Chars("stale")>>}}
  /\ backend_tree \in BackendTrees
  /\ repodata \in BOOLEAN
  /\ fixture_outcome = ""

NextBackends == BuildBackends

SpecBackends == InitBackends /\ [][NextBackends]_vars

(***************************************************************************)
(* download-artifacts.py, testsuite revision: the artifacts directory and  *)
(* download-metadata.json over several invocations                         *)
(***************************************************************************)

\* Invocations of the script that are followed.
MaxFetches == 2

\* The workflow runs an invocation can take its artifact from.
FetchRuns == {101, 102}

\* The archives of those runs, by their entry names.
FetchArchives(repo) ==
  IF repo = PixiRepo
  THEN {<<"pixi">>, <<"README.md", "bin/pixi">>, <<"README.md">>}
  ELSE {<<"README.md">>,
        <<"pixi-build-backends-v1/pixi-build-rust">>,
        <<"pixi-build-cmake", "v2/pixi-build-rust">>}

\* A file in the artifacts directory: the run whose archive its bytes are
\* from and whether all of them were written.
Stored(run, whole) == [run |-> run, whole |-> whole]

\* The names below the artifacts directory that are executables of a
\* repository.
BinariesOf(repo, dir) ==
  {n \in DOMAIN dir :
     IF repo = PixiRepo THEN n \in {"pixi", "pixi.exe"}
     ELSE StartsWithCs(Chars(n), Chars("pixi-build-"))}

\* dir without the file of that name: final_path.unlink()
Unlink(dir, name) == [n \in DOMAIN dir \ {name} |-> dir[n]]

\* One pass of the extraction loop over the artifacts directory: an
\* existing final_path is removed, the entry is extracted and moved to
\* final_path. When the extraction fails, what was written of an entry at
\* the top of the archive stays at final_path.
extract_entry(dir, entry, run, failed) ==
  LET final == PathName(entry)
      cleared == Unlink(dir, final)
      written == [n \in DOMAIN cleared \cup {final} |->
                    IF n = final THEN Stored(run, ~failed) ELSE cleared[n]]
  IN  IF failed /\ PathOf(entry) # <<final>> THEN cleared ELSE written

\* An invocation for one repository: the run is located, the archive is
\* downloaded and its entries are searched. A failure up to here leaves the
\* directory and the metadata as they were.
FetchStart ==
  /\ fetch = <<>>
  /\ fetches < MaxFetches
  /\ fetches' = fetches + 1
  /\ \E repo \in {PixiRepo, BackendsRepo}, run \in FetchRuns, downloaded \in BOOLEAN :
     \E names \in FetchArchives(repo) :
       LET found == MatchedEntries(repo, names, IsWindows(sys_platform))
       IN  fetch' = IF downloaded /\ found # <<>>
                    THEN <<[repo |-> repo, run |-> run, entries |-> found, done |-> 0]>>
                    ELSE <<>>
  /\ UNCHANGED <<beside_cache, cached, cache_metadata>>

\* The extraction of the next matched entry; an exception ends the
\* invocation.
FetchExtract ==
  /\ fetch # <<>>
  /\ fetch[1].done < Len(fetch[1].entries)
  /\ \E failed \in BOOLEAN :
       /\ cached' = extract_entry(cached, fetch[1].entries[fetch[1].done + 1],
                                  fetch[1].run, failed)
       /\ fetch' = IF failed THEN <<>>
                   ELSE <<[fetch[1] EXCEPT !.done = @ + 1]>>
  /\ UNCHANGED <<beside_cache, cache_metadata, fetches>>

\* download_and_extract_artifact has returned: write_metadata.
FetchRecord ==
  /\ fetch # <<>>
  /\ fetch[1].done = Len(fetch[1].entries)
  /\ cache_metadata' =
       [r \in DOMAIN cache_metadata \cup {fetch[1].repo} |->
          IF r = fetch[1].repo THEN fetch[1].run ELSE cache_metadata[r]]
  /\ fetch' = <<>>
  /\ UNCHANGED <<beside_cache, cached, fetches>>

InitCache ==
  /\ Only_cache
  /\ cached = <<>>
  /\ cache_metadata = <<>>
  /\ fetch = <<>>
  /\ fetches = 0

NextCache ==
  \/ FetchStart
  \/ FetchExtract
  \/ FetchRecord

SpecCache == InitCache /\ [][NextCache]_vars

(***************************************************************************)
(* download-artifacts.py followed by a test session, both under the same   *)
(* *_PR_NUMBER variables                                                   *)
(***************************************************************************)

\* A download that completes for the targets --repo selects: what
\* write_metadata has stored for each, the run found for it aside.
DownloadedEntries(repo_arg, env) ==
  LET targets_ == TargetsFor(repo_arg)
      repos_ == {targets_[i].repo : i \in 1..Len(targets_)}
  IN  [r \in repos_ |->
         MetadataEntry(Str(ArtifactNamePattern(r, "linux-x86_64")), [id |-> 7],
                       PrNumberInt(env[EnvVarOf(r)]))]

\* main() of download-artifacts.py runs to the end with exit status 0.
DownloadCompletes ==
  /\ agree_pc = "download"
  /\ \E repo_arg \in RepoArgs(Testsuite) :
       entries' = DownloadedEntries(repo_arg, pr_numbers)
  /\ agree_pc' = "session"
  /\ UNCHANGED <<beside_agree, pr_numbers, validation>>

\* The test session starts: load_dotenv runs _validate_artifact_sources.
SessionStarts ==
  /\ agree_pc = "session"
  /\ LET raised == validate_artifact_sources(entries, pr_numbers)
     IN  validation' = IF raised = "" THEN "passed" ELSE raised
  /\ agree_pc' = "done"
  /\ UNCHANGED <<beside_agree, pr_numbers, entries>>

InitAgree ==
  /\ Only_agree
  /\ pr_numbers \in [{"PIXI_PR_NUMBER", "BUILD_BACKENDS_PR_NUMBER"} -> PrNumberValues]
  /\ entries = <<>>
  /\ validation = ""
  /\ agree_pc = "download"

NextAgree ==
  \/ DownloadCompletes
  \/ SessionStarts

SpecAgree == InitAgree /\ [][NextAgree]_vars

(***************************************************************************)
(* load_env_files of download-artifacts.py and the load_dotenv fixture of  *)
(* conftest.py: the value of a *_PR_NUMBER variable each ends up with      *)
(***************************************************************************)

\* What a source can hold for the variable.
ConfigValues == {None, "", "12", "13"}

\* dotenv.load_dotenv(path, override=...) for one variable: a file that has
\* the key sets it unless the environment has it already and override is off.
load_dotenv(value, file_value, override) ==
  IF file_value = None THEN value
  ELSE IF value # None /\ ~override THEN value
  ELSE file_value

\* load_env_files: .env, then .env.ci, neither overriding.
load_env_files(value, dot_env, dot_env_ci) ==
  load_dotenv(load_dotenv(value, dot_env, FALSE), dot_env_ci, FALSE)

\* The load_dotenv fixture: .env with override; the tests variant then loads
\* .env.ci with override, the testsuite variant does not load it.
load_dotenv_fixture(variant, value, dot_env, dot_env_ci) ==
  LET first == load_dotenv(value, dot_env, TRUE)
  IN  IF variant = "tests" THEN load_dotenv(first, dot_env_ci, TRUE) ELSE first

\* download-artifacts.py starts: main() calls load_env_files().
LoadEnvFiles ==
  /\ config_variant # "none"
  /\ download_env = <<>>
  /\ download_env' = <<load_env_files(os_environ, env_file, env_ci_file)>>
  /\ UNCHANGED <<beside_config, config_variant, os_environ, env_file, env_ci_file,
                 session_env>>

\* The test session starts: the load_dotenv fixture runs.
LoadDotenvFixture ==
  /\ config_variant # "none"
  /\ session_env = <<>>
  /\ session_env' =
       <<load_dotenv_fixture(config_variant, os_environ, env_file, env_ci_file)>>
  /\ UNCHANGED <<beside_config, config_variant, os_environ, env_file, env_ci_file,
                 download_env>>

InitConfig ==
  /\ Only_config
  /\ config_variant \in {"tests", "testsuite"}
  /\ os_environ \in ConfigValues
  /\ env_file \in ConfigValues
  /\ env_ci_file \in ConfigValues
  /\ download_env = <<>>
  /\ session_env = <<>>

NextConfig ==
  \/ LoadEnvFiles
  \/ LoadDotenvFixture

SpecConfig == InitConfig /\ [][NextConfig]_vars


(***************************************************************************)
(* Properties                                                              *)
(***************************************************************************)

\* The requests download_github_artifact may send in each run source.
C1_RunIdCalls == {"get_repo", "get_workflow_run", "get_artifacts", "download"}
C1_PrCalls ==
  {"get_repo", "get_pull", "get_workflows", "get_runs(head_sha=pr.head.sha)",
   "get_artifacts", "download"}
C1_MainBranchCalls ==
  {"get_repo", "get_workflows", "get_runs(branch=main, event=push)",
   "get_artifacts", "download"}

\* C1: in the testsuite revision's download_github_artifact the run source
\* follows a strict precedence. With a run id given (a non-zero number: the
\* code tests `if run_id:`) only that run is fetched and neither the pull
\* request nor the workflow's runs are asked for; otherwise, with a PR number
\* given (non-zero), the pull request is fetched and only the workflow's runs
\* at the PR's head commit are searched; otherwise only the push runs on the
\* main branch are searched.
C1_RunSourcePrecedence ==
  (script = Testsuite /\ target # <<>>) =>
    IF run_id # NoInt /\ run_id[1] # 0
    THEN /\ calls \subseteq C1_RunIdCalls
         /\ pr = <<>>
         /\ selected_run # <<>> =>
              selected_run[1] = [via |-> "get_workflow_run", id |-> run_id[1]]
    ELSE IF pr_number # NoInt /\ pr_number[1] # 0
    THEN /\ calls \subseteq C1_PrCalls
         /\ pr # <<>> => pr[1].number = pr_number[1]
         /\ selected_run # <<>> =>
              /\ selected_run[1].via = "get_runs(head_sha=pr.head.sha)"
              /\ "get_pull" \in calls
    ELSE /\ calls \subseteq C1_MainBranchCalls
         /\ pr = <<>>
         /\ selected_run # <<>> =>
              selected_run[1].via = "get_runs(branch=main, event=push)"

\* C1's case: a run id and a PR number are both given and the run of that
\* id was fetched and is being downloaded.
C1_Witness ==
  /\ script = Testsuite
  /\ pc = "download"
  /\ run_id = <<7>>
  /\ pr_number = <<12>>
  /\ selected_run = <<[via |-> "get_workflow_run", id |-> 7]>>

\* C2: in PR mode and in branch mode at most 3 runs have their artifacts
\* listed, in the order of the listing, none after a run with a match; when
\* the search ends without a match (also with no run at all) the call fails
\* with the FileNotFoundError that lists the available artifact names, and
\* nothing was downloaded.
C2_BoundedScanNotFound ==
  LET listing == calls \cap {"get_runs(head_sha=pr.head.sha)",
                             "get_runs(branch=main, event=push)",
                             "get_runs(branch=release, event=push)"} # {}
  IN  listing =>
        /\ Len(listed) <= 3
        /\ \A i \in 1..Len(listed) :
             /\ listed[i].run.id = i
             /\ i < Len(listed) => listed[i].hit = None
        /\ (pc = "raised" /\ "download" \notin calls) =>
             /\ error.type = "FileNotFoundError"
             /\ error.available = artifacts
             /\ output_dir = dir_before
             /\ temp_files = 0

\* C3 as stated: the artifact chosen from a run's listing is the first whose
\* name contains the platform tag, and none is chosen only if no name
\* contains the tag.
C3_FirstContainingTag ==
  (pc \in {"scan", "located"} /\ listed # <<>>) =>
    LET tag == Chars(current_platform)
        Has(i) == ContainsCs(Chars(artifacts[i]), tag)
    IN  IF target_artifact = None
        THEN \A i \in 1..Len(artifacts) : ~Has(i)
        ELSE \E i \in 1..Len(artifacts) :
               /\ artifacts[i] = target_artifact
               /\ Has(i)
               /\ \A j \in 1..(i - 1) : ~Has(j)

\* C3, amended: the artifact chosen from a run's listing is the first whose
\* name contains the repository's artifact name ("pixi-" or
\* "pixi-build-backends-" followed by the platform tag), and none is chosen
\* only if no name contains it; at most one artifact is chosen per run.
C3_FirstContainingPattern ==
  (pc \in {"scan", "located"} /\ listed # <<>>) =>
    LET prefix == IF target[1].repo = PixiRepo THEN Chars("pixi-")
                  ELSE Chars("pixi-build-backends-")
        pattern == prefix \o Chars(current_platform)
        Has(i) == ContainsCs(Chars(artifacts[i]), pattern)
    IN  /\ listed[Len(listed)].hit = target_artifact
        /\ IF target_artifact = None
           THEN \A i \in 1..Len(artifacts) : ~Has(i)
           ELSE \E i \in 1..Len(artifacts) :
                  /\ artifacts[i] = target_artifact
                  /\ Has(i)
                  /\ \A j \in 1..(i - 1) : ~Has(j)

\* C3's case: a listing with two names that contain the pattern, after a
\* name that contains the tag only; the first of the two is chosen.
C3_Witness ==
  /\ pc = "scan"
  /\ target # <<>>
  /\ target[1].repo = PixiRepo
  /\ artifacts = <<"pixi-linux-x86_64", "pixi-linux-x86_64-debug">>
  /\ target_artifact = "pixi-linux-x86_64"

\* The tag the names of the tags stand for, on lower-cased names.
C4_Expected(s, m) ==
  LET x86 == m \in {Chars("x86_64"), Chars("amd64")}
      arm == m \in {Chars("aarch64"), Chars("arm64")}
  IN  CASE s = Chars("linux") /\ x86 -> "linux-x86_64"
        [] s = Chars("linux") /\ arm -> "linux-aarch64"
        [] s = Chars("darwin") /\ arm -> "macos-aarch64"
        [] s = Chars("darwin") /\ x86 -> "macos-x86_64"
        [] s = Chars("windows") /\ x86 -> "windows-x86_64"
        [] OTHER -> "ValueError"

\* C4: for every (system, machine) pair get_current_platform returns one of
\* the five tags or raises ValueError; the outcome is the same for every pair
\* with the same lower-cased names, x86_64/amd64 and aarch64/arm64 are
\* aliases, and Windows on arm64 raises.
C4_PlatformTag ==
  pc = "platform_done" =>
    /\ current_platform \in
         {"linux-x86_64", "linux-aarch64", "macos-aarch64", "macos-x86_64",
          "windows-x86_64", "ValueError"}
    /\ current_platform = C4_Expected(Lower(system), Lower(machine))
    /\ \A s \in Systems, m \in Machines :
         (Lower(s) = Lower(system) /\ Lower(m) = Lower(machine)) =>
           get_current_platform(s, m) = current_platform

\* C4's case: Windows on ARM64 was asked for and raised.
C4_Witness ==
  /\ pc = "platform_done"
  /\ system = "Windows"
  /\ machine = "ARM64"
  /\ current_platform = "ValueError"

\* C5: after a successful extraction every matched archive entry is in the
\* output directory as a file under its base name.
C5_MatchedEntriesAreFiles ==
  pc = "extracted" =>
    \A i \in 1..Len(matched) :
      /\ Len(FinalPath(matched[i])) = 1
      /\ IsFileAt(output_dir, FinalPath(matched[i]))

\* Every entry the extraction loop has dealt with is in the output directory
\* with mode 0755.
C6_Executable ==
  \A i \in 1..ext_i :
    /\ Exists(output_dir, FinalPath(matched[i]))
    /\ output_dir[FinalPath(matched[i])].mode = "0o755"

\* C6: on POSIX every executable the downloader has placed in the output
\* directory has mode 0755 when download_and_extract_artifact returns, and the
\* metadata file is written only in such a state.
C6_ExecutableBeforeReturn ==
  /\ [](( /\ pc \in {"extract", "extracted"}
          /\ ~StartsWithCs(Chars(sys_platform), Chars("win"))) => C6_Executable)
  /\ [][(metadata' # metadata /\ ~StartsWithCs(Chars(sys_platform), Chars("win")))
          => (pc = "extracted" /\ ext_i = Len(matched) /\ C6_Executable)]_vars

\* C6's case: on Linux an archive's executable was extracted from a
\* subdirectory, moved, made executable, and the call has returned.
C6_Witness ==
  /\ pc = "extracted"
  /\ sys_platform = "linux"
  /\ matched = <<"pixi-build-backends-v1/pixi-build-rust">>
  /\ IsFileAt(output_dir, <<"pixi-build-rust">>)
  /\ output_dir[<<"pixi-build-rust">>].mode = "0o755"

\* The naming convention of the executables of a repository: a file entry
\* named pixi or pixi.exe; a file entry named pixi-build-*, with .exe on
\* Windows and without an extension elsewhere.
C7_Conventional(repo, file_name, is_windows) ==
  LET base_name == Chars(PathName(file_name))
  IN  /\ ~EndsWithCs(Chars(file_name), Chars("/"))
      /\ IF repo = PixiRepo THEN PathName(file_name) \in {"pixi", "pixi.exe"}
         ELSE /\ StartsWithCs(base_name, Chars("pixi-build-"))
              /\ IF is_windows THEN EndsWithCs(base_name, Chars(".exe"))
                 ELSE ~ContainsCs(base_name, Chars("."))

\* C7: an archive without an entry of the repository's naming convention
\* makes the extraction raise FileNotFoundError, with the output directory
\* as it was before the call.
C7_NoMatchRaises ==
  /\ pc \in {"extract", "extracted"} =>
       \E i \in 1..Len(file_list) :
         C7_Conventional(target[1].repo, file_list[i],
                         StartsWithCs(Chars(sys_platform), Chars("win")))
  /\ (pc = "raised" /\ "download" \in calls /\ file_list # <<>>
        /\ \A i \in 1..Len(file_list) :
             ~C7_Conventional(target[1].repo, file_list[i],
                              StartsWithCs(Chars(sys_platform), Chars("win")))) =>
       /\ error.type = "FileNotFoundError"
       /\ output_dir = dir_before

\* C8: a `pixi lock` that exits non-zero is the last one invoked: the
\* process has exited with status 1 and has not printed the success message.
C8_StopsAtFirstFailure ==
  \A i \in 1..Len(invoked) :
    invoked[i].returncode # 0 =>
      /\ i = Len(invoked)
      /\ lock_pc = "exit"
      /\ lock_exit = <<1>>
      /\ "All lockfiles processed successfully!" \notin lock_console

\* C8's case: the lock command failed in a directory that is not the last
\* of the list; the directories after it were left alone.
C8_Witness ==
  /\ lock_pc = "exit"
  /\ Len(invoked) >= 1
  /\ invoked[Len(invoked)].returncode = 1
  /\ Len(invoked) + 1 < Len(lockfiles)

\* How often `pixi lock` was invoked in a directory.
C9_Invocations(d) ==
  Cardinality({i \in 1..Len(invoked) : invoked[i].directory = d})

\* C9: when the process has exited and every lock command was started and
\* succeeded, the exit status is 0 and `pixi lock` ran exactly once in every
\* directory that holds a pixi.lock file and in no other; when the base path
\* is missing or not a directory, the exit status is 1 and nothing was
\* invoked.
C9_OncePerLockDirectory ==
  lock_pc = "exit" =>
    /\ base_path # "dir" => (lock_exit = <<1>> /\ invoked = <<>>)
    /\ ( /\ base_path = "dir"
         /\ "Traceback" \notin lock_console
         /\ \A i \in 1..Len(invoked) : invoked[i].returncode = 0 ) =>
           /\ lock_exit = <<0>>
           /\ \A f \in LockTreeFiles :
                LET d == SubSeq(PathOf(f), 1, Len(PathOf(f)) - 1)
                    holds_lock == \E g \in lock_tree :
                       /\ PathOf(g) = d \o <<"pixi.lock">>
                IN  C9_Invocations(d) = IF holds_lock THEN 1 ELSE 0

\* C9's case: the base directory and a nested directory hold a pixi.lock,
\* another directory holds none, and the run has ended with status 0.
C9_Witness ==
  /\ lock_pc = "exit"
  /\ lock_exit = <<0>>
  /\ lock_tree = {"pixi.lock", "a/b/pixi.lock", "c/pixi.toml", "c/my-pixi.lock"}
  /\ Len(invoked) = 2

\* C10: a download script that finds no GitHub token reports it and exits
\* with a non-zero status, having made no GitHub API call.
C10_NoTokenExitsNonZero ==
  (pc = "exit" /\ "No GitHub token provided" \in console) =>
    /\ exit_code # <<0>>
    /\ calls = {}

\* C11 as stated: once the download of a target has failed the process has
\* exited with a non-zero status and the artifacts directory holds neither
\* binaries nor a metadata entry.
C11_NoPartialResult ==
  "Download failed" \in console =>
    /\ pc = "exit"
    /\ exit_code # NoInt
    /\ exit_code # <<0>>
    /\ metadata = NoMetadata
    /\ output_dir = EmptyDir

\* C11, amended: in the testsuite revision a failed target does not end the
\* process; it ends only when every target was taken up, with status 1 if
\* and only if some target failed and status 0 with the success message
\* otherwise.
C11_FailureDoesNotStopTheLoop ==
  script = Testsuite =>
    /\ ("Download failed" \in console /\ pc # "exit") => exit_code = NoInt
    /\ (pc = "exit" /\ github_token # None) =>
         /\ targets = <<>>
         /\ exit_code = <<1>> <=> "Download failed" \in console
         /\ exit_code = <<0>> <=> "Download failed" \notin console
         /\ exit_code = <<0>> <=> "Download completed successfully" \in console

\* C11's case: the pixi target failed, the backends target was still
\* downloaded and recorded, and the process exited with status 1.
C11_Witness ==
  /\ script = Testsuite
  /\ pc = "exit"
  /\ exit_code = <<1>>
  /\ DOMAIN metadata = {BackendsRepo}
  /\ output_dir # EmptyDir

\* The message main() prints when --run-id comes without --repo.
C20_Message == "--run-id can only be used together with --repo"

\* C20: --run-id without --repo ends the testsuite revision's process with
\* status 1 in its first step, with no token resolved, no API call made, no
\* run listed and nothing downloaded, extracted or written; and no run with
\* both targets ever carries a run id.
C20_RunIdNeedsRepo ==
  /\ [](C20_Message \in console =>
          /\ script = Testsuite
          /\ pc = "exit"
          /\ exit_code = <<1>>
          /\ github_token = None
          /\ calls = {}
          /\ listed = <<>>
          /\ output_dir = EmptyDir
          /\ metadata = NoMetadata
          /\ temp_files = 0)
  /\ []((script = Testsuite /\ pc = "target" /\ Len(targets) = 2)
          => args_run_id = NoInt)
  /\ [][(C20_Message \in console')
          => (pc = "start" /\ UNCHANGED <<github_token, calls, listed, disk_vars>>)]_vars

\* C20's case: the process has ended on the --run-id check.
C20_Witness ==
  /\ C20_Message \in console
  /\ pc = "exit"
  /\ exit_code = <<1>>

\* What C12 says a returning call of write_metadata for repository R did to
\* the file: R's entry is the new one, every other entry is as it was, and
\* over a file that was not valid JSON only R's entry is there.
C12_Frame(p) ==
  LET R == writers[p].repo
      before == metadata_file
      after == metadata_file'
  IN  /\ after.kind = "object"
      /\ R \in DOMAIN after.value
      /\ after.value[R] = writers[p].entry
      /\ before.kind = "object" =>
           /\ DOMAIN after.value = DOMAIN before.value \cup {R}
           /\ \A r \in DOMAIN before.value \ {R} : after.value[r] = before.value[r]
      /\ before.kind \in {"undecodable", "invalid"} => DOMAIN after.value = {R}

\* C12 as stated: in any sequence of calls every call of write_metadata
\* replaces only its repository's entry, and a call over a file that is not
\* valid JSON does not fail but overwrites it with that one entry.
C12_KeyedByRepository ==
  /\ [][(writers[1].at = "loaded" /\ writers'[1].at = "returned")
          => C12_Frame(1)]_vars
  /\ [](writers[1].at = "raised" =>
          metadata_file.kind \notin {"undecodable", "invalid"})

\* C12 without the files that are not UTF-8 text: the part of the statement
\* the code keeps.
C12_TextFilesFrame ==
  /\ [][(writers[1].at = "loaded" /\ writers'[1].at = "returned")
          => C12_Frame(1)]_vars
  /\ [](writers[1].at = "raised" => metadata_file.kind \notin {"invalid"})

\* C18 as stated: when two concurrent invocations for different
\* repositories have both written their metadata and returned, the file
\* holds both their entries.
C18_BothEntriesKept ==
  (/\ Len(writers) = 2
   /\ writers[1].at = "returned"
   /\ writers[2].at = "returned"
   /\ writers[1].repo # writers[2].repo)
  => /\ metadata_file.kind = "object"
     /\ \A p \in {1, 2} :
          /\ writers[p].repo \in DOMAIN metadata_file.value
          /\ metadata_file.value[writers[p].repo] = writers[p].entry

\* C13 as stated: a session does not start over cached artifacts whose
\* recorded head commit is not the commit expected now.
C13_StaleCommitRejected ==
  (/\ session \notin {"none", "collecting"}
   /\ metadata_file.kind = "object"
   /\ \E repo \in DOMAIN metadata_file.value :
        metadata_file.value[repo].head_sha # expected_head)
  => session # "running"

\* The values of a *_PR_NUMBER variable under which an entry passes: for a
\* PR entry the recorded number, blanks around it allowed; for a branch
\* entry none or blanks; for any other source all.
C13_Passing(entry) ==
  CASE entry.source = "pr" /\ entry.pr_number = <<12>> -> {"12", " 12 "}
    [] entry.source = "pr" -> {}
    [] entry.source = "branch" -> {None, "", " "}
    [] OTHER -> PrNumberValues

\* C13, amended: the session starts exactly when the metadata file is
\* absent or a JSON object each of whose entries agrees with its
\* *_PR_NUMBER variable in source and PR number; the recorded head commit
\* plays no part.
C13_ProvenanceOnly ==
  session \notin {"none", "collecting"} =>
    (session = "running" <=>
       /\ metadata_file.kind \in {"absent", "object"}
       /\ \A repo \in DOMAIN metadata_file.value :
            environ[EnvVarOf(repo)] \in C13_Passing(metadata_file.value[repo]))

\* C13's case: a session runs on artifacts of PR 12 whose recorded commit
\* is no longer the head.
C13_Witness ==
  /\ session = "running"
  /\ metadata_file.kind = "object"
  /\ PixiRepo \in DOMAIN metadata_file.value
  /\ metadata_file.value[PixiRepo].source = "pr"
  /\ metadata_file.value[PixiRepo].head_sha # expected_head
  /\ environ["PIXI_PR_NUMBER"] = " 12 "

\* `git pull` was run in the repository the variable points at.
C14_Pulled(name) ==
  \E i \in 1..Len(commands) : commands[i] = Command(name, "git pull")

\* The release build was run there.
C14_Built(name) ==
  \E i \in 1..Len(commands) : commands[i] = Command(name, "pixi run build-release")

\* C14 as stated: once build-repos has processed both work trees, it has
\* pulled in a repository exactly when its branch is main or master, and
\* where it has not pulled it has run the release build.
C14_PullOnMainOrMaster ==
  build_pc = "done" =>
    \A i \in 1..2 :
      LET name == RepoNames[i]
      IN  repos[name].worktree =>
            /\ C14_Pulled(name) <=> repos[name].branch \in {"main", "master"}
            /\ ~C14_Pulled(name) => C14_Built(name)

\* What holds instead: the pull is run on main only.
C14_PullOnMainOnly ==
  build_pc = "done" =>
    \A i \in 1..2 :
      LET name == RepoNames[i]
      IN  repos[name].worktree =>
            /\ C14_Pulled(name) <=> repos[name].branch = "main"
            /\ ~C14_Pulled(name) => C14_Built(name)

\* Every substring the argument names is in the stream.
C15_AllIn(arg, stream) ==
  \A i \in 1..Len(arg.items) : ContainsCs(Chars(stream), Chars(arg.items[i]))

\* No substring the argument names is in the stream.
C15_NoneIn(arg, stream) ==
  \A i \in 1..Len(arg.items) : ~ContainsCs(Chars(stream), Chars(arg.items[i]))

\* C15 as stated: the call returns the Output exactly when the exit code is
\* the expected one, all the contains substrings are in their stream and
\* none of the excludes substrings is; otherwise it raises AssertionError,
\* and on another exit code it is the assert on the return code that fails.
C15_ReturnsExactlyWhenSatisfied ==
  cli_result # <<>> =>
    LET c == cli_call
        r == cli_result[1]
    IN  /\ r.kind \in {"Output", "AssertionError"}
        /\ r.kind = "Output" <=>
             /\ c.returncode = c.expected_exit_code
             /\ C15_AllIn(c.stdout_contains, c.stdout)
             /\ C15_NoneIn(c.stdout_excludes, c.stdout)
             /\ C15_AllIn(c.stderr_contains, c.stderr)
             /\ C15_NoneIn(c.stderr_excludes, c.stderr)
        /\ c.returncode # c.expected_exit_code => r = Failed("Return code")

\* An excludes argument as the code reads it: the bare empty string names
\* no substring.
C15_Read(arg) == IF arg = StrArg("") THEN NoneArg ELSE arg

\* C15, amended: as stated, except that an excludes argument given as the
\* bare empty string is not checked at all.
C15_ReturnsExactlyWhenChecksPass ==
  cli_result # <<>> =>
    LET c == cli_call
        r == cli_result[1]
    IN  /\ r.kind \in {"Output", "AssertionError"}
        /\ r.kind = "Output" <=>
             /\ c.returncode = c.expected_exit_code
             /\ C15_AllIn(c.stdout_contains, c.stdout)
             /\ C15_NoneIn(C15_Read(c.stdout_excludes), c.stdout)
             /\ C15_AllIn(c.stderr_contains, c.stderr)
             /\ C15_NoneIn(C15_Read(c.stderr_excludes), c.stderr)
        /\ c.returncode # c.expected_exit_code => r = Failed("Return code")

\* C15's case: a call with every kind of check returned its Output, the
\* excludes for stdout being the empty string, which stdout contains.
C15_Witness ==
  /\ cli_result = <<Returned>>
  /\ cli_call.stdout = "pixi"
  /\ cli_call.stdout_contains = StrArg("pixi")
  /\ cli_call.stdout_excludes = StrArg("")
  /\ cli_call.stderr_contains = ListArg(<<"">>)
  /\ cli_call.stderr_excludes = ListArg(<<"pixi", "abc">>)

\* C17: when copy_manifest has returned for a pixi.toml with a
\* [package.build.backend] table, the channel list in the copy contains the
\* local channel URI; over an absent or empty list it is the local URI and
\* conda-forge; otherwise it is the source list with each channel naming
\* pixi-build-backends replaced by the local URI, the others in place, and
\* at most the local URI added at the end.
C17_BackendChannelOverridden ==
  (/\ manifest_dst # <<>>
   /\ ~manifest_raised
   /\ manifest_src.name = "pixi.toml"
   /\ manifest_src.backend)
  => LET local_uri == IF "BUILD_BACKENDS_REPO" \in local_channels
                      THEN "file:///repo/artifacts-channel"
                      ELSE "file:///testsuite/artifacts/pixi-build-backends"
         written == manifest_dst[1].channels[1]
         source == IF manifest_src.channels = <<>> THEN <<>>
                   ELSE manifest_src.channels[1]
     IN  /\ \E i \in 1..Len(written) : written[i] = local_uri
         /\ IF source = <<>>
            THEN written = <<local_uri, "https://prefix.dev/conda-forge">>
            ELSE /\ Len(written) \in {Len(source), Len(source) + 1}
                 /\ Len(written) = Len(source) + 1 => written[Len(written)] = local_uri
                 /\ \A i \in 1..Len(source) :
                      written[i] =
                        IF ContainsCs(Chars(source[i]), Chars("pixi-build-backends"))
                        THEN local_uri ELSE source[i]

\* C17's case: a list with a backends channel between two others was
\* rewritten in place, and one without any got the local URI appended.
C17_Witness ==
  /\ manifest_dst # <<>>
  /\ ~manifest_raised
  /\ manifest_src.name = "pixi.toml"
  /\ manifest_src.channels =
       <<<<"https://example.org/channel", "https://prefix.dev/pixi-build-backends",
           "https://prefix.dev/conda-forge">>>>
  /\ manifest_dst[1].channels =
       <<<<"https://example.org/channel", "file:///testsuite/artifacts/pixi-build-backends",
           "https://prefix.dev/conda-forge">>>>

\* The name of the executable on the host.
C19_Exe == IF system = "Windows" THEN "pixi.exe" ELSE "pixi"

\* What C19 says of one call of pixi(), made with PIXI_BIN_DIR at env
\* before and after it, over the tree t, with the result r: a set
\* (non-empty) PIXI_BIN_DIR decides; else the first of artifacts and
\* artifacts/pixi holding the executable does and is exported; a returned
\* path is a regular file named after the executable.
C19_Call(env, env_after, t, r) ==
  LET in_artifacts == IF system = "Windows" THEN "artifacts/pixi.exe" ELSE "artifacts/pixi"
      in_pixi == IF system = "Windows" THEN "artifacts/pixi/pixi.exe" ELSE "artifacts/pixi/pixi"
  IN  /\ r.raised \in {"", "ValueError", "FileNotFoundError"}
      /\ r.raised = "" =>
           /\ r.path \in DOMAIN t
           /\ t[r.path] = "file"
           /\ PathName(r.path) = C19_Exe
      /\ env \notin {None, ""} =>
           /\ env_after = env
           /\ r.raised = "" => PathOf(r.path) = PathOf(env) \o <<C19_Exe>>
      /\ env \in {None, ""} =>
           IF t["artifacts"] = "dir" /\ t[in_artifacts] = "file"
           THEN r = Resolved(in_artifacts) /\ env_after = "artifacts"
           ELSE IF t["artifacts/pixi"] = "dir" /\ t[in_pixi] = "file"
           THEN r = Resolved(in_pixi) /\ env_after = "artifacts/pixi"
           ELSE r.raised # "" /\ env_after = env

\* C19: every call of pixi() is as C19_Call says, and any two calls of one
\* process that return a path return the same one, whatever happened to the
\* tree in between.
C19_ResolvesOnePath ==
  /\ [][Len(resolved') > Len(resolved) =>
          C19_Call(pixi_bin_dir, pixi_bin_dir', bin_tree, resolved'[Len(resolved')])]_vars
  /\ [](\A i, j \in 1..Len(resolved) :
          (resolved[i].raised = "" /\ resolved[j].raised = "")
            => resolved[i].path = resolved[j].path)

\* C19's case: on Windows two calls returned the executable in artifacts/,
\* the directory having been found by the first and exported.
C19_Witness ==
  /\ system = "Windows"
  /\ pixi_bin_dir = "artifacts"
  /\ Len(resolved) = 2
  /\ resolved[1] = Resolved("artifacts/pixi.exe")
  /\ resolved[2] = Resolved("artifacts/pixi.exe")
  /\ bin_tree["artifacts/pixi/pixi.exe"] = "file"

\* C16 as stated: of the tests running side by side none has deleted a
\* path below the shared project directory that another of them has read.
C16_NoSharedPathTouched ==
  running # <<>> =>
    \A t \in Tests, u \in Tests :
      t # u => running[t].deletes \cap running[u].reads = {}

\* What holds all the same: no copy of the project directory fails, since
\* each test that copies .pixi has removed it before and none creates it.
C16_NoCopyFails ==
  running # <<>> => \A t \in Tests : ~running[t].failed

\* The *_PR_NUMBER variable of a repository without the blanks around it,
\* the empty string when it is unset.
C21_Variable(repo) ==
  LET v == environ[EnvVarOf(repo)]
  IN  IF v = None THEN "" ELSE Str(RStripCs(LStripCs(Chars(v))))

\* The cases in which C21 has the validation raise for a repository.
C21_MustRaise(repo) ==
  /\ metadata_file.kind = "object"
  /\ repo \in DOMAIN metadata_file.value
  /\ LET entry == metadata_file.value[repo]
     IN  \/ /\ entry.source = "pr"
            /\ \/ entry.pr_number = NoInt
               \/ C21_Variable(repo) = ""
               \/ C21_Variable(repo) # Str(DigitsOf(entry.pr_number[1]))
         \/ /\ entry.source = "branch"
            /\ C21_Variable(repo) # ""

\* C21: over a metadata file that is absent or a JSON object, the
\* validation raises exactly when some repository has an entry with source
\* 'pr' whose recorded number is missing or is not the stripped *_PR_NUMBER
\* variable (an empty variable included), or an entry with source 'branch'
\* while the variable is not empty; the error raised is the one of the first
\* such repository in the order pixi, pixi-build-backends.
C21_RaisesExactlyOnMismatch ==
  (session \notin {"none", "collecting"} /\ metadata_file.kind \in {"absent", "object"}) =>
    /\ session # "running" <=> \E repo \in MetaRepos : C21_MustRaise(repo)
    /\ (session = "originate from branch") =>
         \E repo \in MetaRepos :
           C21_MustRaise(repo) /\ metadata_file.value[repo].source = "branch"
    /\ (session \in {"is missing a pull request number", "is not set",
                     "originate from another PR"}) =>
         \E repo \in MetaRepos :
           C21_MustRaise(repo) /\ metadata_file.value[repo].source = "pr"

\* C21's case: the pixi entry, from PR 12, passes under " 12 " and the
\* backends entry, from a branch, makes the validation raise because its
\* variable is set.
C21_Witness ==
  /\ session = "originate from branch"
  /\ metadata_file.kind = "object"
  /\ DOMAIN metadata_file.value = MetaRepos
  /\ metadata_file.value[PixiRepo].source = "pr"
  /\ metadata_file.value[PixiRepo].pr_number = <<12>>
  /\ environ["PIXI_PR_NUMBER"] = " 12 "
  /\ metadata_file.value[BackendsRepo].source = "branch"
  /\ environ["BUILD_BACKENDS_PR_NUMBER"] = "13"

\* The variable is set to something.
C22_Set(name) == repos[name].value \notin {None, ""}

\* Every step of processing the repository succeeds: it is a directory
\* inside a work tree, the pull, where one is made, returns 0 and so does
\* the release build.
C22_Succeeds(name) ==
  /\ repos[name].is_dir
  /\ repos[name].worktree
  /\ (repos[name].branch = "main") => repos[name].pull_ok
  /\ repos[name].build_ok

\* Some command was run in the repository.
C22_Touched(name) == \E i \in 1..Len(commands) : commands[i].repo = name

\* C22: build-repos exits with 0 exactly when both variables are set and
\* both repositories are processed without error; whatever happens to
\* PIXI_REPO, BUILD_BACKENDS_REPO is processed after it (its work tree is
\* checked when it is a directory, and its release build is run when its
\* own steps succeed); with a variable missing the exit status is 1 and no
\* command has been run in either repository.
C22_ExitStatus ==
  /\ build_pc = "exit" =>
       /\ build_exit \in {<<0>>, <<1>>}
       /\ build_exit = <<0>> <=>
            \A i \in 1..2 : C22_Set(RepoNames[i]) /\ C22_Succeeds(RepoNames[i])
  /\ (build_pc \in {"done", "exit"} /\ \A i \in 1..2 : C22_Set(RepoNames[i])) =>
       /\ repos["BUILD_BACKENDS_REPO"].is_dir => C22_Touched("BUILD_BACKENDS_REPO")
       /\ C22_Succeeds("BUILD_BACKENDS_REPO") => C14_Built("BUILD_BACKENDS_REPO")
  /\ (build_pc # "start" /\ \E i \in 1..2 : ~C22_Set(RepoNames[i])) =>
       /\ build_pc = "exit"
       /\ build_exit = <<1>>
       /\ commands = <<>>

\* C22's case: the release build of PIXI_REPO fails, BUILD_BACKENDS_REPO is
\* built all the same and the exit status is 1.
C22_Witness ==
  /\ build_pc = "exit"
  /\ build_exit = <<1>>
  /\ repos["PIXI_REPO"].worktree
  /\ ~repos["PIXI_REPO"].build_ok
  /\ C14_Built("PIXI_REPO")
  /\ C14_Built("BUILD_BACKENDS_REPO")
  /\ C22_Succeeds("BUILD_BACKENDS_REPO")

\* The pieces of a sequence of characters between the separators.
RECURSIVE C23_Split(_, _)
C23_Split(cs, sep) ==
  LET at == {i \in 1..Len(cs) : cs[i] = sep}
  IN  IF at = {} THEN <<cs>>
      ELSE <<SubSeq(cs, 1, MinOf(at) - 1)>>
           \o C23_Split(SubSeq(cs, MinOf(at) + 1, Len(cs)), sep)

\* The value of PIXI_BUILD_BACKEND_OVERRIDE is the comma-joined list of
\* name=path with every expected backend once, each path an existing file
\* of that backend's executable in the directory.
C23_WellFormed(value, directory) ==
  LET parts == C23_Split(value, ",")
      backends == ExpectedBackends(fixture_variant)
  IN  /\ Len(parts) = Len(backends)
      /\ \A i \in 1..Len(backends) : \E k \in 1..Len(parts) :
           LET file == exec_extension(system, backends[i])
           IN  /\ parts[k] = Chars(backends[i]) \o <<"=">> \o Chars(directory)
                             \o <<"/">> \o Chars(file)
               /\ BackendIsFile(backend_tree, directory, file)

\* The directory BUILD_BACKENDS_BIN_DIR names once the fixture has run, when
\* it is a directory holding every expected backend; None otherwise.
C23_Resolved ==
  LET d == backend_env.BUILD_BACKENDS_BIN_DIR
      backends == ExpectedBackends(fixture_variant)
  IN  IF /\ d \notin {None, ""}
         /\ BackendIsDir(backend_tree, d)
         /\ \A i \in 1..Len(backends) :
              BackendIsFile(backend_tree, d, exec_extension(system, backends[i]))
      THEN d ELSE None

C24_MetadataDescribesBinaries ==
  fetch = <<>> =>
    \A repo \in DOMAIN cache_metadata :
      /\ BinariesOf(repo, cached) # {}
      /\ \A n \in BinariesOf(repo, cached) :
           cached[n] = Stored(cache_metadata[repo], TRUE)

\* What holds instead: the entry is written by an invocation that has
\* extracted every matched entry, and names the run they are from.
C24_WrittenAfterExtraction ==
  [][cache_metadata' # cache_metadata =>
       /\ fetch # <<>>
       /\ fetch[1].done = Len(fetch[1].entries)
       /\ cache_metadata'[fetch[1].repo] = fetch[1].run
       /\ \A i \in 1..Len(fetch[1].entries) :
            cached[PathName(fetch[1].entries[i])] = Stored(fetch[1].run, TRUE)]_vars

\* C25 as stated: whenever the testsuite revision writes a metadata entry,
\* an entry with source 'pr' and pr_number n is for a run listed by the head
\* commit of pull request n, and an entry with source 'branch' is for a run
\* listed on a branch.
C25_ProvenanceTruthful ==
  [][(pc = "extracted" /\ script = Testsuite /\ pc' = "target") =>
       LET entry == metadata'[target[1].repo]
           run == selected_run[1]
       IN  /\ entry.source = "pr" =>
                /\ run.via = RunsQuery("pr", target_branch)
                /\ pr # <<>>
                /\ <<pr[1].number>> = entry.pr_number
           /\ entry.source = "branch" =>
                run.via = RunsQuery("branch", target_branch)]_vars

\* What holds instead: the entry has source 'pr' exactly when the
\* *_PR_NUMBER variable is all digits, whichever way the run was found, and
\* a run listed by a pull request's head commit is recorded with that
\* pull request's number.
C25_SourceFollowsVariable ==
  [][(pc = "extracted" /\ script = Testsuite /\ pc' = "target") =>
       LET entry == metadata'[target[1].repo]
           run == selected_run[1]
       IN  /\ entry.source = "pr" <=> pr_number # NoInt
           /\ entry.source \in {"pr", "branch"}
           /\ run.via = RunsQuery("pr", target_branch) =>
                /\ entry.source = "pr"
                /\ <<pr[1].number>> = entry.pr_number]_vars

\* C26 as stated: whatever the two *_PR_NUMBER variables hold, a session
\* started after a download that completed under the same values passes the
\* validation of the artifact sources.
C26_DownloadThenSessionPasses ==
  agree_pc = "done" => validation = "passed"

\* The values under which download and validation read a variable alike:
\* unset, blank, or digits without a leading zero and without blanks.
C26_Plain(value) == value \in {None, "", " ", "12", "13"}

\* What holds instead: the session passes exactly when the variable of
\* every repository that was downloaded is plain.
C26_PassesOnPlainValues ==
  agree_pc = "done" =>
    (validation = "passed" <=>
       \A repo \in DOMAIN entries : C26_Plain(pr_numbers[EnvVarOf(repo)]))

\* The entries of the archive whose base name is exactly pixi or pixi.exe.
C27_Exact ==
  {i \in 1..Len(file_list) : PathName(file_list[i]) \in {"pixi", "pixi.exe"}}

\* C27 as stated: the archive entry chosen as the pixi binary has the base
\* name pixi or pixi.exe, and it is the first entry of the archive that has.
C27_ExactBaseName ==
  (pc \in {"extract", "extracted"} /\ target[1].repo = PixiRepo) =>
    /\ Len(matched) = 1
    /\ PathName(matched[1]) \in {"pixi", "pixi.exe"}
    /\ C27_Exact # {}
    /\ matched[1] = file_list[MinOf(C27_Exact)]

\* What holds instead: when some entry is chosen, no entry before it is
\* named pixi or ends with /pixi or with pixi.exe, and it is or ends so
\* itself.
C27_FirstLooseMatch ==
  (pc \in {"extract", "extracted"} /\ target[1].repo = PixiRepo) =>
    /\ Len(matched) = 1
    /\ \E i \in 1..Len(file_list) :
         /\ file_list[i] = matched[1]
         /\ \E cut \in 0..Len(Chars(matched[1])) :
              SubSeq(Chars(matched[1]), cut + 1, Len(Chars(matched[1])))
                \in {<<"p", "i", "x", "i">>, <<"/", "p", "i", "x", "i">>,
                     <<"p", "i", "x", "i", ".", "e", "x", "e">>}
         /\ \A k \in 1..(i - 1) : PathName(file_list[k]) \notin {"pixi", "pixi.exe"}

\* C28 as stated: for the backends, no directory entry of the archive is in
\* the list of executables, and none is in the output directory as a
\* directory under its own name after the extraction.
C28_OnlyFileEntries ==
  (pc \in {"extract", "extracted"} /\ target[1].repo = BackendsRepo) =>
    /\ \A i \in 1..Len(matched) : ~IsDirEntry(matched[i])
    /\ \A i \in 1..Len(file_list) :
         IsDirEntry(file_list[i]) => ~IsDirAt(output_dir, FinalPath(file_list[i]))

\* What holds instead: every entry in the list has a base name that starts
\* with pixi-build- and, off Windows, has no dot; on Windows it ends with
\* .exe. Nothing is asked about the kind of the entry.
C28_MatchedByNameOnly ==
  (pc \in {"extract", "extracted"} /\ target[1].repo = BackendsRepo) =>
    \A i \in 1..Len(matched) :
      LET base_name == Chars(PathName(matched[i]))
      IN  /\ SubSeq(base_name, 1, 11) = Chars("pixi-build-")
          /\ IF SubSeq(Chars(sys_platform), 1, 3) = <<"w", "i", "n">>
             THEN SubSeq(base_name, Len(base_name) - 3, Len(base_name)) = Chars(".exe")
             ELSE \A k \in 1..Len(base_name) : base_name[k] # "."

\* C29 as stated: whichever way download_and_extract_artifact ends once the
\* archive is open, by returning or by raising, no temporary zip file is
\* left on disk.
C29_TempFileDeleted ==
  (pc \in {"raised", "extracted"} /\ file_list # <<>>) => temp_files = 0

\* What holds instead: a run of the script that exits with status 0 leaves
\* no temporary zip file, and a call that returns has deleted its own.
C29_DeletedOnSuccess ==
  /\ [](exit_code = <<0>> => temp_files = 0)
  /\ [][(pc = "extract" /\ pc' = "extracted") => temp_files' = temp_files - 1]_vars

\* C30 as stated: whatever the environment, .env and .env.ci hold for a
\* *_PR_NUMBER variable, the download script and the test session end up
\* with the same value for it.
C30_SameEffectiveValue ==
  (download_env # <<>> /\ session_env # <<>>) => download_env = session_env

\* The sources that hold the variable.
C30_Holders ==
  {s \in {"environment", ".env", ".env.ci"} :
     (CASE s = "environment" -> os_environ
        [] s = ".env" -> env_file
        [] OTHER -> env_ci_file) # None}

\* What holds instead: the two agree when at most one source holds the
\* variable and, for the testsuite variant, that source is not .env.ci.
C30_SameWithOneSource ==
  (/\ download_env # <<>>
   /\ session_env # <<>>
   /\ Cardinality(C30_Holders) <= 1
   /\ config_variant = "testsuite" => env_ci_file = None)
  => download_env = session_env

====
